---------------------------- MODULE Spec2Model ----------------------------
(***************************************************************************)
(* Model of the payment-channel daemon core:                                *)
(*   - channel state arithmetic        (daemon/channel.c, in packets.c)     *)
(*   - revocation acceptance           (daemon/packets.c)                   *)
(*   - asynchronous resolve-and-connect (daemon/dns.c, unnamed/part_000)    *)
(*   - the transactional store          (daemon/db.c, unnamed/part_001)     *)
(* Each subsystem has its own specification; the variables of the other     *)
(* subsystems stay at their idle value.                                     *)
(***************************************************************************)
EXTENDS Integers, Sequences, FiniteSets, TLC

VARIABLES
    \* ---- channel state (struct channel_state) ----
    cstate,      \* the struct channel_state under mutation
    present,     \* HTLCs currently in the cstate: kind -> how many
    last,        \* the last cstate call: its name, argument, result, state before
    \* ---- revocation acceptance (struct peer) ----
    peer,        \* their_prev_revocation_hash, remote.commit, shachain, ...
    rev,         \* the last packet handled and its outcome
    \* ---- resolve and connect (struct dns_async) ----
    dns,         \* struct dns_async and the pipe connection
    attempts,    \* one record per connect attempt made
    \* ---- the store (struct db) ----
    db,          \* in_transaction and the engine's own transaction
    dblog,       \* what the db calls did
    \* ---- persistence and restart (the tables, db_load_peers) ----
    live,        \* the peer in memory: HTLCs, cstates, counters
    store,       \* the tables: htlcs, commit_info, closing
    loaded       \* the peer db_load_peers rebuilds from the tables

chanVars == <<cstate, present, last>>
revVars  == <<peer, rev>>
dnsVars  == <<dns, attempts>>
dbVars   == <<db, dblog>>
loadVars == <<live, store, loaded>>
vars     == <<cstate, present, last, peer, rev, dns, attempts, db, dblog,
              live, store, loaded>>

\* a null pointer
NULL == [null |-> TRUE]

(***************************************************************************)
(*                        CHANNEL STATE ARITHMETIC                          *)
(***************************************************************************)

\* enum channel_side
OURS   == 0
THEIRS == 1
Sides  == {OURS, THEIRS}
Other(s) == 1 - s

\* ---- bounds of the channel model ----
MaxHtlcs == 2
MaxCalls == 5
\* anchor amounts (satoshi), fee rates (satoshi per 1000 bytes), HTLC amounts
\* (millisatoshi) and forced close fees (satoshi) the model draws from
Anchors     == {1000, 2000, 1000000}
FeeRates    == {50, 5500, 50000}
HtlcAmounts == {100000, 600000, 100000000}
ForcedFees  == {17, 3000}
\* stands for any fee above 0xFFFFFFFFFFFFFFFF / 1000 (not representable here)
HugeFee     == -1

\* An HTLC as the cstate functions see it: who offered it, and how much.
HtlcKinds == [side : Sides, msatoshis : HtlcAmounts]

DustThreshold == 546
is_dust(satoshis) == satoshis < DustThreshold

htlc_channel_side(htlc) == htlc.side

\* fee_by_feerate without the truncation to an even number of satoshis
fee_by_feerate_NotEven(txsize, fee_rate) == (txsize * fee_rate) \div 1000

fee_by_feerate(txsize, fee_rate) == ((txsize * fee_rate) \div 2000) * 2

\* calculate_fee_msat with the byte count of a commitment without HTLCs
calculate_fee_msat_NoHtlcBytes(num_nondust_htlcs, fee_rate) ==
    fee_by_feerate(338, fee_rate) * 1000

calculate_fee_msat(num_nondust_htlcs, fee_rate) ==
    LET bytes == 338 + 32 * num_nondust_htlcs
    IN  fee_by_feerate(bytes, fee_rate) * 1000

\* pay_fee with the short side charged the whole fee instead of what it holds
pay_fee_Overcharge(side, fee_msat) ==
    IF side.pay_msat >= fee_msat
    THEN [side |-> [side EXCEPT !.pay_msat = @ - fee_msat,
                                !.fee_msat = @ + fee_msat],
          unpaid |-> 0]
    ELSE [side |-> [side EXCEPT !.fee_msat = @ + fee_msat,
                                !.pay_msat = 0],
          unpaid |-> fee_msat - side.pay_msat]

\* Pay this much fee, if possible: the side afterwards and the amount unpaid.
pay_fee(side, fee_msat) ==
    IF side.pay_msat >= fee_msat
    THEN [side |-> [side EXCEPT !.pay_msat = @ - fee_msat,
                                !.fee_msat = @ + fee_msat],
          unpaid |-> 0]
    ELSE [side |-> [side EXCEPT !.fee_msat = @ + side.pay_msat,
                                !.pay_msat = 0],
          unpaid |-> fee_msat - side.pay_msat]

\* recalculate_fees without charging what one side could not pay to the other
recalculate_fees_NoSpill(a, b, fee_msat) ==
    LET a0 == [a EXCEPT !.pay_msat = a.pay_msat + a.fee_msat, !.fee_msat = 0]
        b0 == [b EXCEPT !.pay_msat = b.pay_msat + b.fee_msat, !.fee_msat = 0]
        pa == pay_fee(a0, fee_msat \div 2)
        pb == pay_fee(b0, fee_msat \div 2)
    IN  [a |-> pa.side, b |-> pb.side]

\* recalculate_fees charging the fee on top of the fees already set aside
recalculate_fees_NoFold(a, b, fee_msat) ==
    LET pa == pay_fee(a, fee_msat \div 2)
        pb == pay_fee(b, fee_msat \div 2)
        remainder == pa.unpaid + pb.unpaid
        pa2 == pay_fee(pa.side, remainder)
        pb2 == pay_fee(pb.side, pa2.unpaid)
    IN  [a |-> pa2.side, b |-> pb2.side]

\* The uint32 fields are folded first (pay_msat += fee_msat): a pay_msat that
\* change_funding left wrapped below zero is brought back into range here,
\* so the fold is modelled on the integers.
recalculate_fees(a, b, fee_msat) ==
    LET a0 == [a EXCEPT !.pay_msat = a.pay_msat + a.fee_msat, !.fee_msat = 0]
        b0 == [b EXCEPT !.pay_msat = b.pay_msat + b.fee_msat, !.fee_msat = 0]
        pa == pay_fee(a0, fee_msat \div 2)
        pb == pay_fee(b0, fee_msat \div 2)
        remainder == pa.unpaid + pb.unpaid
        pa2 == pay_fee(pa.side, remainder)
        pb2 == pay_fee(pb.side, pa2.unpaid)
    IN  [a |-> pa2.side, b |-> pb2.side]

\* change_funding with the payer required to cover the whole fee, not half
change_funding_WholeFee(anchor_satoshis, fee_rate, htlc_msat, a, b, num_nondust_htlcs) ==
    LET fee_msat == calculate_fee_msat(num_nondust_htlcs, fee_rate)
    IN  IF htlc_msat > 0 /\ htlc_msat + fee_msat > a.pay_msat + a.fee_msat
        THEN [ok |-> FALSE, a |-> a, b |-> b]
        ELSE LET r == recalculate_fees([a EXCEPT !.pay_msat = @ - htlc_msat],
                                       b, fee_msat)
             IN  [ok |-> TRUE, a |-> r.a, b |-> r.b]

\* change_funding that leaves a's funds alone: the HTLC is not paid from them
change_funding_KeepsFunds(anchor_satoshis, fee_rate, htlc_msat, a, b, num_nondust_htlcs) ==
    LET fee_msat == calculate_fee_msat(num_nondust_htlcs, fee_rate)
    IN  IF htlc_msat > 0 /\ htlc_msat + fee_msat \div 2 > a.pay_msat + a.fee_msat
        THEN [ok |-> FALSE, a |-> a, b |-> b]
        ELSE LET r == recalculate_fees(a, b, fee_msat)
             IN  [ok |-> TRUE, a |-> r.a, b |-> r.b]

\* a transfers htlc_msat to a HTLC (gains it, if negative)
change_funding(anchor_satoshis, fee_rate, htlc_msat, a, b, num_nondust_htlcs) ==
    LET fee_msat == calculate_fee_msat(num_nondust_htlcs, fee_rate)
    IN  IF htlc_msat > 0 /\ htlc_msat + fee_msat \div 2 > a.pay_msat + a.fee_msat
        THEN [ok |-> FALSE, a |-> a, b |-> b]
        ELSE LET r == recalculate_fees([a EXCEPT !.pay_msat = @ - htlc_msat],
                                       b, fee_msat)
             IN  [ok |-> TRUE, a |-> r.a, b |-> r.b]

ZeroSide == [pay_msat |-> 0, fee_msat |-> 0, num_htlcs |-> 0]

\* 2^32 / 1000, the first anchor (in satoshi) that does not fit
AnchorLimit == 4294967

initial_cstate(anchor_satoshis, fee_rate, funding) ==
    LET fee_msat == calculate_fee_msat(0, fee_rate)
        funder   == [pay_msat |-> anchor_satoshis * 1000 - fee_msat,
                     fee_msat |-> fee_msat, num_htlcs |-> 0]
        r        == change_funding(anchor_satoshis, fee_rate, 0, funder, ZeroSide, 0)
    IN  IF anchor_satoshis >= AnchorLimit THEN NULL
        ELSE IF fee_msat > anchor_satoshis * 1000 THEN NULL
        ELSE [anchor      |-> anchor_satoshis,
              fee_rate    |-> fee_rate,
              num_nondust |-> 0,
              side        |-> [s \in Sides |-> IF s = funding THEN r.a ELSE r.b]]

\* adjust_fee recomputes the split; it does not store the new rate.
adjust_fee(cs, fee_rate) ==
    LET fee_msat == calculate_fee_msat(cs.num_nondust, fee_rate)
        r == recalculate_fees(cs.side[OURS], cs.side[THEIRS], fee_msat)
    IN  [cs EXCEPT !.side = [s \in Sides |-> IF s = OURS THEN r.a ELSE r.b]]

\* force_fee reporting success without comparing the fee charged
force_fee_Unchecked(cs, fee) ==
    IF fee = HugeFee
    THEN [ok |-> FALSE, cs |-> cs]
    ELSE LET r  == recalculate_fees(cs.side[OURS], cs.side[THEIRS], fee * 1000)
             c2 == [cs EXCEPT !.side = [s \in Sides |-> IF s = OURS THEN r.a ELSE r.b]]
         IN  [ok |-> TRUE, cs |-> c2]

force_fee(cs, fee) ==
    IF fee = HugeFee
    THEN [ok |-> FALSE, cs |-> cs]
    ELSE LET r  == recalculate_fees(cs.side[OURS], cs.side[THEIRS], fee * 1000)
             c2 == [cs EXCEPT !.side = [s \in Sides |-> IF s = OURS THEN r.a ELSE r.b]]
         IN  [ok |-> c2.side[OURS].fee_msat + c2.side[THEIRS].fee_msat = fee * 1000,
              cs |-> c2]

\* cstate_add_htlc counting every HTLC as non-dust
cstate_add_htlc_CountsDust(cs, htlc) ==
    LET c       == htlc_channel_side(htlc)
        nondust == cs.num_nondust + 1
        r       == change_funding(cs.anchor, cs.fee_rate, htlc.msatoshis,
                                  cs.side[c], cs.side[Other(c)], nondust)
    IN  IF ~r.ok
        THEN [ok |-> FALSE, cs |-> cs]
        ELSE [ok |-> TRUE,
              cs |-> [cs EXCEPT
                        !.num_nondust = nondust,
                        !.side = [s \in Sides |->
                                    IF s = c
                                    THEN [r.a EXCEPT !.num_htlcs = @ + 1]
                                    ELSE r.b]]]

\* Add a HTLC to its creator if it can afford it.
cstate_add_htlc(cs, htlc) ==
    LET c       == htlc_channel_side(htlc)
        nondust == IF is_dust(htlc.msatoshis \div 1000)
                   THEN cs.num_nondust ELSE cs.num_nondust + 1
        r       == change_funding(cs.anchor, cs.fee_rate, htlc.msatoshis,
                                  cs.side[c], cs.side[Other(c)], nondust)
    IN  IF ~r.ok
        THEN [ok |-> FALSE, cs |-> cs]
        ELSE [ok |-> TRUE,
              cs |-> [cs EXCEPT
                        !.num_nondust = nondust,
                        !.side = [s \in Sides |->
                                    IF s = c
                                    THEN [r.a EXCEPT !.num_htlcs = @ + 1]
                                    ELSE r.b]]]

\* Remove htlc from creator, credit it to beneficiary.
\* remove_htlc leaving the creator's HTLC count as it was
remove_htlc_KeepsCount(cs, creator, beneficiary, htlc) ==
    LET nondust == IF is_dust(htlc.msatoshis \div 1000)
                   THEN cs.num_nondust ELSE cs.num_nondust - 1
        r  == change_funding(cs.anchor, cs.fee_rate, 0 - htlc.msatoshis,
                             cs.side[beneficiary], cs.side[Other(beneficiary)],
                             nondust)
        s1 == [s \in Sides |-> IF s = beneficiary THEN r.a ELSE r.b]
    IN  [cs EXCEPT !.num_nondust = nondust, !.side = s1]

remove_htlc(cs, creator, beneficiary, htlc) ==
    LET nondust == IF is_dust(htlc.msatoshis \div 1000)
                   THEN cs.num_nondust ELSE cs.num_nondust - 1
        r  == change_funding(cs.anchor, cs.fee_rate, 0 - htlc.msatoshis,
                             cs.side[beneficiary], cs.side[Other(beneficiary)],
                             nondust)
        s1 == [s \in Sides |-> IF s = beneficiary THEN r.a ELSE r.b]
    IN  [cs EXCEPT !.num_nondust = nondust,
                   !.side = [s1 EXCEPT ![creator].num_htlcs = @ - 1]]

\* cstate_fail_htlc giving the HTLC to the side it was offered to
cstate_fail_htlc_ToOther(cs, htlc) ==
    remove_htlc(cs, htlc_channel_side(htlc), Other(htlc_channel_side(htlc)), htlc)

cstate_fail_htlc(cs, htlc) ==
    remove_htlc(cs, htlc_channel_side(htlc), htlc_channel_side(htlc), htlc)

\* cstate_fulfill_htlc crediting the HTLC to the side that offered it
cstate_fulfill_htlc_ToCreator(cs, htlc) ==
    remove_htlc(cs, htlc_channel_side(htlc), htlc_channel_side(htlc), htlc)

cstate_fulfill_htlc(cs, htlc) ==
    remove_htlc(cs, htlc_channel_side(htlc), Other(htlc_channel_side(htlc)), htlc)


\* ---- the channel specification: every call a caller can make ----
NoHtlc == [side |-> OURS, msatoshis |-> 0]

NumPresent == LET RECURSIVE Sum(_)
                  Sum(S) == IF S = {} THEN 0
                            ELSE LET k == CHOOSE x \in S : TRUE
                                 IN  present[k] + Sum(S \ {k})
              IN  Sum(HtlcKinds)

ChannelInit ==
    /\ \E a \in Anchors, r \in FeeRates, f \in Sides :
          /\ initial_cstate(a, r, f) # NULL
          /\ cstate = initial_cstate(a, r, f)
    /\ present = [k \in HtlcKinds |-> 0]
    /\ last = [op |-> "initial_cstate", htlc |-> NoHtlc, ok |-> TRUE, pre |-> cstate,
              n |-> 0, arg |-> 0]

ChanFrame == UNCHANGED <<revVars, dnsVars, dbVars, loadVars>>

AddHtlc ==
    /\ last.n < MaxCalls
    /\ NumPresent < MaxHtlcs
    /\ \E htlc \in HtlcKinds :
          LET r == cstate_add_htlc(cstate, htlc)
          IN  /\ cstate' = r.cs
              /\ present' = IF r.ok THEN [present EXCEPT ![htlc] = @ + 1] ELSE present
              /\ last' = [op |-> "cstate_add_htlc", htlc |-> htlc, ok |-> r.ok,
                          pre |-> cstate,
                   n |-> last.n + 1, arg |-> 0]
    /\ ChanFrame

FulfillHtlc ==
    \E htlc \in HtlcKinds :
       /\ last.n < MaxCalls
       /\ present[htlc] > 0
       /\ cstate' = cstate_fulfill_htlc(cstate, htlc)
       /\ present' = [present EXCEPT ![htlc] = @ - 1]
       /\ last' = [op |-> "cstate_fulfill_htlc", htlc |-> htlc, ok |-> TRUE,
                   pre |-> cstate,
                   n |-> last.n + 1, arg |-> 0]
       /\ ChanFrame

FailHtlc ==
    \E htlc \in HtlcKinds :
       /\ last.n < MaxCalls
       /\ present[htlc] > 0
       /\ cstate' = cstate_fail_htlc(cstate, htlc)
       /\ present' = [present EXCEPT ![htlc] = @ - 1]
       /\ last' = [op |-> "cstate_fail_htlc", htlc |-> htlc, ok |-> TRUE,
                   pre |-> cstate,
                   n |-> last.n + 1, arg |-> 0]
       /\ ChanFrame

AdjustFee ==
    \E r \in FeeRates :
       /\ last.n < MaxCalls
       /\ cstate' = adjust_fee(cstate, r)
       /\ last' = [op |-> "adjust_fee", htlc |-> NoHtlc, ok |-> TRUE, pre |-> cstate,
                   n |-> last.n + 1, arg |-> r]
       /\ UNCHANGED present
       /\ ChanFrame

ForceFee ==
    \E f \in ForcedFees \cup {HugeFee} :
       LET r == force_fee(cstate, f)
       IN  /\ last.n < MaxCalls
           /\ cstate' = r.cs
           /\ last' = [op |-> "force_fee", htlc |-> NoHtlc, ok |-> r.ok, pre |-> cstate,
                   n |-> last.n + 1, arg |-> f]
           /\ UNCHANGED present
           /\ ChanFrame
       /\ ChanFrame

ChannelNext == AddHtlc \/ FulfillHtlc \/ FailHtlc \/ AdjustFee \/ ForceFee


(***************************************************************************)
(*                         REVOCATION ACCEPTANCE                            *)
(***************************************************************************)
\* ---- bounds of the revocation model ----
MaxCommits == 3

\* Hash values are terms: <<atom, op, op, ...>>.  An op i in 0..63 stands for
\* "flip bit i, then SHA256" (one step of the shachain derivation); the op
\* ShaOp stands for a plain SHA256.  Distinct terms are distinct hashes.
SeedAtom  == 100
RogueAtom == 200
ShaOp     == 64
NoHash    == <<>>

sha256(h) == Append(h, ShaOp)

\* A 64-bit shachain index I is held as its distance from the top,
\* 0xFFFFFFFFFFFFFFFF - I: the distances are small, the indices are not.
\* Bit i of the distance is the complement of bit i of the index.
IndexBits == 64
DistBit(d, i) == IF i >= 30 THEN 0 ELSE (d \div (2 ^ i)) % 2

\* count_trailing_zeroes(index) = the number of trailing one bits of the distance
RECURSIVE count_trailing_zeroes(_)
count_trailing_zeroes(d) ==
    IF d % 2 = 0 THEN 0 ELSE 1 + count_trailing_zeroes(d \div 2)

\* derive(from, to, hash): for every bit in which from and to differ, from
\* the highest down, flip that bit of the hash and hash it again.
RECURSIVE derive_from(_, _, _, _)
derive_from(i, from, to, h) ==
    IF i < 0 THEN h
    ELSE derive_from(i - 1, from, to,
                     IF DistBit(from, i) # DistBit(to, i) THEN Append(h, i) ELSE h)

derive(from, to, h) == derive_from(IndexBits - 1, from, to, h)

\* shachain_from_seed: derive(0, index, seed); index 0 has every distance bit set
RECURSIVE from_seed(_, _, _)
from_seed(i, d, h) ==
    IF i < 0 THEN h
    ELSE from_seed(i - 1, d, IF DistBit(d, i) = 0 THEN Append(h, i) ELSE h)

shachain_from_seed(d) == from_seed(IndexBits - 1, d, <<SeedAtom>>)

ShachainSlots == 65
NoKnown == [index |-> 0, hash |-> NoHash]

shachain_init == [min_index |-> 0, num_valid |-> 0,
                  known |-> [i \in 0 .. ShachainSlots - 1 |-> NoKnown]]

\* shachain_add_hash(chain, index, hash): only the next lower index is
\* taken, and only a hash from which every stored hash below its position
\* derives; it is then stored at the position of its trailing zeroes.
shachain_add_hash(chain, d, hash) ==
    LET pos == count_trailing_zeroes(d)
        inOrder == \/ chain.num_valid = 0 /\ d = 0
                   \/ chain.num_valid > 0 /\ d = chain.min_index + 1
        derives == \A i \in 0 .. pos - 1 :
                      derive(d, chain.known[i].index, hash) = chain.known[i].hash
    IN  IF ~inOrder \/ ~derives
        THEN [ok |-> FALSE, chain |-> chain]
        ELSE [ok |-> TRUE,
              chain |-> [min_index |-> d,
                         num_valid |-> IF pos + 1 > chain.num_valid
                                       THEN pos + 1 ELSE chain.num_valid,
                         known |-> [chain.known EXCEPT
                                      ![pos] = [index |-> d, hash |-> hash]]]]

\* the preimages the counterparty may have committed to for its commitment n:
\* the one of its shachain, or one of its own choosing
Rogue(n) == <<RogueAtom + n>>
Preimages(n) == {shachain_from_seed(n), Rogue(n)}
AllPreimages == UNION {Preimages(n) : n \in 0 .. MaxCommits + 1}

\* mutant: the SHA256 of the preimage is not compared with their_prev_revocation_hash
accept_pkt_revocation_NoShaCheck(pr, pkt) ==
    IF pr.their_prev_revocation_hash = NoHash
    THEN [outcome |-> "abort", peer |-> pr]
    ELSE LET d == pr.remote.commit_num - 1
             r == shachain_add_hash(pr.their_preimages, d, pkt.revocation_preimage)
         IN  IF ~r.ok
             THEN [outcome |-> "error", peer |-> pr]
             ELSE [outcome |-> "accepted",
                   peer |-> [pr EXCEPT
                      !.their_preimages = r.chain,
                      !.their_prev_revocation_hash = NoHash,
                      !.remote.next_revocation_hash = pkt.next_revocation_hash]]

\* mutant: their_prev_revocation_hash is kept after the revocation is taken
accept_pkt_revocation_KeepsPrev(pr, pkt) ==
    IF pr.their_prev_revocation_hash = NoHash
    THEN [outcome |-> "abort", peer |-> pr]
    ELSE LET h == sha256(pkt.revocation_preimage)
             d == pr.remote.commit_num - 1
             r == shachain_add_hash(pr.their_preimages, d, pkt.revocation_preimage)
         IN  IF h # pr.their_prev_revocation_hash \/ ~r.ok
             THEN [outcome |-> "error", peer |-> pr]
             ELSE [outcome |-> "accepted",
                   peer |-> [pr EXCEPT
                      !.their_preimages = r.chain,
                      !.remote.next_revocation_hash = pkt.next_revocation_hash]]

\* accept_pkt_revocation: the outcome and the peer afterwards.
\*   "accepted" - returns NULL;  "error" - returns an ERROR packet;
\*   "abort"    - the assertion on their_prev_revocation_hash fails.
accept_pkt_revocation(pr, pkt) ==
    IF pr.their_prev_revocation_hash = NoHash
    THEN [outcome |-> "abort", peer |-> pr]
    ELSE LET h == sha256(pkt.revocation_preimage)
             d == pr.remote.commit_num - 1
             r == shachain_add_hash(pr.their_preimages, d, pkt.revocation_preimage)
         IN  IF h # pr.their_prev_revocation_hash
             THEN [outcome |-> "error", peer |-> pr]
             ELSE IF ~r.ok
             THEN [outcome |-> "error", peer |-> pr]
             ELSE [outcome |-> "accepted",
                   peer |-> [pr EXCEPT
                      !.their_preimages = r.chain,
                      !.their_prev_revocation_hash = NoHash,
                      !.remote.next_revocation_hash = pkt.next_revocation_hash]]

RevFrame == UNCHANGED <<chanVars, dnsVars, dbVars, loadVars>>

\* The channel is open: the counterparty's OPEN gave the revocation hash of
\* its commitment 0 and the next one.
RevInit ==
    /\ \E p0 \in Preimages(0), p1 \in Preimages(1) :
          peer = [their_prev_revocation_hash |-> NoHash,
                  remote |-> [commit_num |-> 0,
                              revocation_hash |-> sha256(p0),
                              next_revocation_hash |-> sha256(p1)],
                  their_preimages |-> shachain_init]
    /\ rev = [kind |-> "open", outcome |-> "none",
              pkt |-> [revocation_preimage |-> NoHash, next_revocation_hash |-> NoHash],
              pre |-> peer, accepted |-> NoHash, used |-> <<>>]

\* A failed assertion aborts the process; a build with NDEBUG reads through
\* the null pointer instead and dies of that.
BuildOutcomes(o) == IF o = "abort" THEN {"abort", "crash"} ELSE {o}

\* the channel is terminated by an ERROR, the process by an abort
Alive == rev.outcome \notin {"error", "abort", "crash"}

\* We send UPDATE_COMMIT: a new remote commitment is minted, and the hash of
\* the one it replaces is kept to check their revocation against.
SendCommit ==
    /\ Alive
    /\ peer.their_prev_revocation_hash = NoHash
    /\ peer.remote.commit_num < MaxCommits
    /\ peer' = [peer EXCEPT
                  !.their_prev_revocation_hash = peer.remote.revocation_hash,
                  !.remote.commit_num = @ + 1,
                  !.remote.revocation_hash = peer.remote.next_revocation_hash]
    /\ rev' = [rev EXCEPT !.kind = "commit", !.outcome = "none", !.pre = peer,
                          !.accepted = NoHash]
    /\ RevFrame

\* An UPDATE_REVOCATION arrives and is handled by accept_pkt_revocation.
RecvRevocation ==
    /\ Alive
    /\ \E p \in AllPreimages, q \in Preimages(peer.remote.commit_num + 1) :
          LET pkt == [revocation_preimage |-> p, next_revocation_hash |-> sha256(q)]
              r   == accept_pkt_revocation(peer, pkt)
          IN  /\ peer' = r.peer
              /\ \E o \in BuildOutcomes(r.outcome) :
                 rev' = [kind |-> "revocation", outcome |-> o, pkt |-> pkt,
                         pre |-> peer,
                         accepted |-> IF r.outcome = "accepted" THEN p
                                      ELSE rev.accepted,
                         used |-> IF r.outcome = "accepted"
                                  THEN Append(rev.used, r.peer.their_preimages.min_index)
                                  ELSE rev.used]
    /\ RevFrame

RevNext == SendCommit \/ RecvRevocation

(***************************************************************************)
(*                     ASYNCHRONOUS RESOLVE AND CONNECT                     *)
(***************************************************************************)
\* ---- bounds of the dns model ----
MaxAddrs == 3

\* What the worker found for one address: an overlength address, one whose
\* socket() fails in the parent, one whose socket() succeeds.
AddrKinds == {"overlen", "nosock", "sock"}

AddrLists == UNION {[1 .. n -> AddrKinds] : n \in 1 .. MaxAddrs}

\* lookup_and_write: getaddrinfo fails or finds nothing and nothing is
\* written; else num is written and, if that write went through, the array.
lookup_and_write ==
    {[wrote |-> "nothing", addrs |-> <<>>]}
      \cup {[wrote |-> w, addrs |-> l] : w \in {"num", "all"}, l \in AddrLists}

\* d->use is a size_t; only its being zero is tested, so the integer -1
\* stands for the wrapped value.
\* The caller's failure callback.
fail(d, by) == [d EXCEPT !.fails = @ + 1, !.failed_by = by]

\* init_conn: run by io_new_conn for the socket made from the address at
\* `consumed`.  It connects to d->addresses[0], read after try_connect_one
\* moved d->addresses on.
init_conn(d, att, consumed) ==
    [d   |-> [d EXCEPT !.conn = "connecting", !.finish = "connect_failed"],
     att |-> Append(att, [consumed |-> consumed, target |-> d.addresses + 1])]

\* try_connect_one: consume addresses until one gives a socket; out of
\* addresses, drop a use and fail if it was the last.
RECURSIVE try_connect_one(_, _)
try_connect_one(d, att) ==
    IF d.num_addresses # 0
    THEN LET a  == d.addresses + 1
             d1 == [d EXCEPT !.addresses = @ + 1, !.num_addresses = @ - 1]
         IN  IF d.array[a] = "overlen" THEN try_connect_one(d1, att)
             ELSE IF d.array[a] = "sock" THEN init_conn(d1, att, a)
             ELSE try_connect_one(d1, att)
    ELSE LET d1 == [d EXCEPT !.use = @ - 1]
         IN  [d   |-> IF d1.use = 0 THEN fail(d1, "try_connect_one") ELSE d1,
              att |-> att]

\* connect_failed: the finish handler of a connection being tried
connect_failed(d, att) == try_connect_one(d, att)

\* mutant: the finish handler is left in place
connected_KeepsFinish(d, att) ==
    [d EXCEPT !.conn = "open", !.inits = @ + 1, !.won = Len(att)]

\* connected: no more connections are tried; the connection goes to init.
connected(d, att) ==
    [d EXCEPT !.conn = "open", !.finish = "NULL", !.inits = @ + 1,
              !.won = Len(att)]

\* read_addresses: num_addresses has been read; the array is allocated
read_addresses(d) ==
    [d EXCEPT !.num_addresses = Len(d.worker.addrs), !.reader = "addrs"]

\* mutant: no use is taken for the connections
start_connecting_NoUse(d, att) ==
    LET r == try_connect_one([d EXCEPT !.array = d.worker.addrs], att)
    IN  [d |-> [r.d EXCEPT !.reader = "closing"], att |-> r.att]

\* start_connecting: the array has been read; take a use, try, io_close
start_connecting(d, att) ==
    LET r == try_connect_one([d EXCEPT !.array = d.worker.addrs, !.use = @ + 1],
                             att)
    IN  [d |-> [r.d EXCEPT !.reader = "closing"], att |-> r.att]

\* reap_child: the finish handler of the connection to the worker
reap_child(d) ==
    LET d1 == [d EXCEPT !.use = @ - 1, !.reader = "closed"]
    IN  IF d1.use = 0 THEN fail(d1, "reap_child") ELSE d1

DnsFrame == UNCHANGED <<chanVars, revVars, dbVars, loadVars>>

\* dns_resolve_and_connect_ has forked the worker and returned the handle
DnsInit ==
    /\ \E w \in lookup_and_write :
          dns = [use |-> 1, worker |-> w, num_addresses |-> 0, addresses |-> 0,
                 array |-> <<>>, reader |-> "num", conn |-> "none",
                 finish |-> "NULL", fails |-> 0, failed_by |-> "none",
                 inits |-> 0, won |-> 0]
    /\ attempts = <<>>

\* the number of addresses arrives on the pipe
ReadAddresses ==
    /\ dns.reader = "num"
    /\ dns.worker.wrote # "nothing"
    /\ dns' = read_addresses(dns)
    /\ UNCHANGED attempts
    /\ DnsFrame

\* the addresses arrive on the pipe
StartConnecting ==
    /\ dns.reader = "addrs"
    /\ dns.worker.wrote = "all"
    /\ LET r == start_connecting(dns, attempts)
       IN  dns' = r.d /\ attempts' = r.att
    /\ DnsFrame

\* the pipe is at end of file where more was to be read
PipeEof ==
    \/ dns.reader = "num" /\ dns.worker.wrote = "nothing"
    \/ dns.reader = "addrs" /\ dns.worker.wrote = "num"

\* the connection to the worker is closed, by io_close or by end of file
ReapChild ==
    /\ dns.reader = "closing" \/ PipeEof
    /\ dns' = reap_child(dns)
    /\ UNCHANGED attempts
    /\ DnsFrame

\* the connect of the connection being tried succeeds
Connected ==
    /\ dns.conn = "connecting"
    /\ dns' = connected(dns, attempts)
    /\ UNCHANGED attempts
    /\ DnsFrame

\* the connection is closed (a failed connect, or later by either end) and
\* its finish handler, if any, runs
ConnClosed ==
    /\ dns.conn \in {"connecting", "open"}
    /\ LET d == [dns EXCEPT !.conn = "closed"]
           r == IF dns.finish = "connect_failed"
                THEN connect_failed(d, attempts)
                ELSE [d |-> d, att |-> attempts]
       IN  dns' = r.d /\ attempts' = r.att
    /\ DnsFrame

DnsNext == ReadAddresses \/ StartConnecting \/ ReapChild \/ Connected \/ ConnClosed

(***************************************************************************)
(*                         THE TRANSACTIONAL STORE                          *)
(***************************************************************************)
\* ---- bounds of the store model ----
MaxDbCalls == 3

\* assert(cond): the process aborts when cond is false
assert(d, cond) == IF cond THEN d ELSE [d EXCEPT !.status = "aborted"]

\* mutant: the flag is set whatever BEGIN returned
db_start_transaction_AlwaysSets(d, ok) ==
    LET d1 == assert(d, ~d.in_transaction)
    IN  IF d1.status = "aborted" THEN d1
        ELSE [d1 EXCEPT !.in_transaction = TRUE]

\* db_start_transaction: ok is whether "BEGIN IMMEDIATE" succeeded
db_start_transaction(d, ok) ==
    LET d1 == assert(d, ~d.in_transaction)
    IN  IF d1.status = "aborted" THEN d1
        ELSE IF ok THEN [d1 EXCEPT !.in_transaction = TRUE] ELSE d1

\* db_abort_transaction: the flag is cleared before ROLLBACK runs
db_abort_transaction(d, ok) ==
    LET d1 == assert(d, d.in_transaction)
    IN  IF d1.status = "aborted" THEN d1
        ELSE [d1 EXCEPT !.in_transaction = FALSE]

\* db_commit_transaction: the flag is cleared before COMMIT runs
db_commit_transaction(d, ok) ==
    LET d1 == assert(d, d.in_transaction)
    IN  IF d1.status = "aborted" THEN d1
        ELSE [d1 EXCEPT !.in_transaction = FALSE]

\* The write-sites: each leaves the flag alone; what differs is what it
\* asserts about it before its statement runs.
db_set_anchor(d) == assert(d, d.in_transaction)
db_update_next_revocation_hash(d) == assert(d, d.in_transaction)
db_new_htlc(d) == assert(d, d.in_transaction)
db_update_htlc_state(d) == assert(d, d.in_transaction)
db_update_state(d) == assert(d, d.in_transaction)
db_htlc_fulfilled(d) == d
db_new_commit_info(d) == assert(d, d.in_transaction)
db_remove_their_prev_revocation_hash(d) == assert(d, d.in_transaction)
\* mutant: the write runs without looking at the flag
db_save_shachain_NoAssert(d) == d

db_save_shachain(d) == assert(d, d.in_transaction)
db_add_commit_map(d) == assert(d, d.in_transaction)
db_begin_shutdown(d) == assert(d, d.in_transaction)
db_set_our_closing_script(d) == assert(d, d.in_transaction)
db_set_their_closing_script(d) == assert(d, ~d.in_transaction)
db_update_our_closing(d) == d
db_update_their_closing(d) == assert(d, ~d.in_transaction)

DbFrame == UNCHANGED <<chanVars, revVars, dnsVars, loadVars>>

\* db_init has opened the store
DbInit ==
    /\ db = [in_transaction |-> FALSE, status |-> "running",
             open |-> FALSE, nested |-> FALSE, n |-> 0]
    /\ dblog = [op |-> "db_init", pre |-> FALSE, ran |-> TRUE, ok |-> TRUE]

\* One call: d1 is the store as the function leaves it.  db.open and
\* db.nested follow the calls themselves: a begin that succeeded and was not
\* yet followed by a commit or abort, and a begin that succeeded inside one.
Call(op, d1, ok) ==
    LET ran == d1.status = "running"
    IN  /\ db' = [d1 EXCEPT
                    !.n = @ + 1,
                    !.open = IF ~ran THEN @
                             ELSE IF op = "db_start_transaction" THEN (@ \/ ok)
                             ELSE IF op \in {"db_commit_transaction",
                                             "db_abort_transaction"} THEN FALSE
                             ELSE @,
                    !.nested = @ \/ (ran /\ ok /\ op = "db_start_transaction"
                                         /\ db.open)]
        /\ dblog' = [op |-> op, pre |-> db.in_transaction, ran |-> ran, ok |-> ok]
        /\ DbFrame

CanCall == db.status = "running" /\ db.n < MaxDbCalls

DbStartTransaction ==
    /\ CanCall
    /\ \E ok \in BOOLEAN :
          Call("db_start_transaction", db_start_transaction(db, ok), ok)

DbAbortTransaction ==
    /\ CanCall
    /\ \E ok \in BOOLEAN :
          Call("db_abort_transaction", db_abort_transaction(db, ok), ok)

DbCommitTransaction ==
    /\ CanCall
    /\ \E ok \in BOOLEAN :
          Call("db_commit_transaction", db_commit_transaction(db, ok), ok)

DbSetAnchor ==
    /\ CanCall
    /\ \E ok \in BOOLEAN : Call("db_set_anchor", db_set_anchor(db), ok)

DbUpdateNextRevocationHash ==
    /\ CanCall
    /\ \E ok \in BOOLEAN : Call("db_update_next_revocation_hash", db_update_next_revocation_hash(db), ok)

DbNewHtlc ==
    /\ CanCall
    /\ \E ok \in BOOLEAN : Call("db_new_htlc", db_new_htlc(db), ok)

DbUpdateHtlcState ==
    /\ CanCall
    /\ \E ok \in BOOLEAN : Call("db_update_htlc_state", db_update_htlc_state(db), ok)

DbUpdateState ==
    /\ CanCall
    /\ \E ok \in BOOLEAN : Call("db_update_state", db_update_state(db), ok)

DbHtlcFulfilled ==
    /\ CanCall
    /\ \E ok \in BOOLEAN : Call("db_htlc_fulfilled", db_htlc_fulfilled(db), ok)

DbNewCommitInfo ==
    /\ CanCall
    /\ \E ok \in BOOLEAN : Call("db_new_commit_info", db_new_commit_info(db), ok)

DbRemoveTheirPrevRevocationHash ==
    /\ CanCall
    /\ \E ok \in BOOLEAN : Call("db_remove_their_prev_revocation_hash", db_remove_their_prev_revocation_hash(db), ok)

DbSaveShachain ==
    /\ CanCall
    /\ \E ok \in BOOLEAN : Call("db_save_shachain", db_save_shachain(db), ok)

DbAddCommitMap ==
    /\ CanCall
    /\ \E ok \in BOOLEAN : Call("db_add_commit_map", db_add_commit_map(db), ok)

DbBeginShutdown ==
    /\ CanCall
    /\ \E ok \in BOOLEAN : Call("db_begin_shutdown", db_begin_shutdown(db), ok)

DbSetOurClosingScript ==
    /\ CanCall
    /\ \E ok \in BOOLEAN : Call("db_set_our_closing_script", db_set_our_closing_script(db), ok)

DbSetTheirClosingScript ==
    /\ CanCall
    /\ \E ok \in BOOLEAN : Call("db_set_their_closing_script", db_set_their_closing_script(db), ok)

DbUpdateOurClosing ==
    /\ CanCall
    /\ \E ok \in BOOLEAN : Call("db_update_our_closing", db_update_our_closing(db), ok)

DbUpdateTheirClosing ==
    /\ CanCall
    /\ \E ok \in BOOLEAN : Call("db_update_their_closing", db_update_their_closing(db), ok)

DbNext ==
    \/ DbStartTransaction
    \/ DbAbortTransaction
    \/ DbCommitTransaction
    \/ DbSetAnchor
    \/ DbUpdateNextRevocationHash
    \/ DbNewHtlc
    \/ DbUpdateHtlcState
    \/ DbUpdateState
    \/ DbHtlcFulfilled
    \/ DbNewCommitInfo
    \/ DbRemoveTheirPrevRevocationHash
    \/ DbSaveShachain
    \/ DbAddCommitMap
    \/ DbBeginShutdown
    \/ DbSetOurClosingScript
    \/ DbSetTheirClosingScript
    \/ DbUpdateOurClosing
    \/ DbUpdateTheirClosing

(***************************************************************************)
(*                        PERSISTENCE AND RESTART                           *)
(***************************************************************************)
\* ---- bounds of the restart model ----
MaxStored == 2
MaxHtlcId == 1

\* The peer whose channel is followed, and the peer HTLCs are forwarded from.
ThisPeer == 1
SrcPeer  == 2
\* the id of the HTLC that SrcPeer offered us and that we forward
SrcHtlcId == 3

\* enum htlc_state, in the order an HTLC we offered, and one they offered,
\* goes through it: added, then removed by the other side.
LocalLadder ==
    <<"SENT_ADD_HTLC", "SENT_ADD_COMMIT", "RCVD_ADD_REVOCATION",
      "RCVD_ADD_ACK_COMMIT", "SENT_ADD_ACK_REVOCATION",
      "RCVD_REMOVE_HTLC", "RCVD_REMOVE_COMMIT", "SENT_REMOVE_REVOCATION",
      "SENT_REMOVE_ACK_COMMIT", "RCVD_REMOVE_ACK_REVOCATION">>
RemoteLadder ==
    <<"RCVD_ADD_HTLC", "RCVD_ADD_COMMIT", "SENT_ADD_REVOCATION",
      "SENT_ADD_ACK_COMMIT", "RCVD_ADD_ACK_REVOCATION",
      "SENT_REMOVE_HTLC", "SENT_REMOVE_COMMIT", "RCVD_REMOVE_REVOCATION",
      "RCVD_REMOVE_ACK_COMMIT", "SENT_REMOVE_ACK_REVOCATION">>

LadderLen == 10
Rungs == 1 .. LadderLen

htlc_state_owner(state) ==
    IF \E i \in Rungs : LocalLadder[i] = state THEN "LOCAL" ELSE "REMOTE"

Ladder(owner) == IF owner = "LOCAL" THEN LocalLadder ELSE RemoteLadder

\* the place of a state in the ladder of its owner
Rung(state) ==
    CHOOSE i \in Rungs : Ladder(htlc_state_owner(state))[i] = state

\* A change goes into the commitment of the side that did not make it when
\* that side is sent the commit (second rung), and into the maker's own two
\* rungs later.  An add is made by the owner, a removal by the other side.
HTLC_LOCAL_F_WAS_COMMITTED(state) ==
    IF htlc_state_owner(state) = "LOCAL" THEN Rung(state) >= 4 ELSE Rung(state) >= 2
HTLC_LOCAL_F_COMMITTED(state) ==
    IF htlc_state_owner(state) = "LOCAL"
    THEN Rung(state) \in 4 .. 6 ELSE Rung(state) \in 2 .. 8
HTLC_REMOTE_F_WAS_COMMITTED(state) ==
    IF htlc_state_owner(state) = "LOCAL" THEN Rung(state) >= 2 ELSE Rung(state) >= 4
HTLC_REMOTE_F_COMMITTED(state) ==
    IF htlc_state_owner(state) = "LOCAL"
    THEN Rung(state) \in 2 .. 8 ELSE Rung(state) \in 4 .. 6

htlc_owner(htlc) == htlc_state_owner(htlc.state)

\* ---- column values ----
SqlNull      == [type |-> "null", val |-> 0]
SqlInt(n)    == [type |-> "int", val |-> n]
SqlPubkey(p) == [type |-> "pubkey", val |-> p]

\* pubkey_from_sql: only a column holding a key decodes
pubkey_from_sql(col) ==
    IF col.type = "pubkey" THEN [ok |-> TRUE, id |-> col.val]
    ELSE [ok |-> FALSE, id |-> 0]

\* an HTLC without upstream link
NoSrc == [peer |-> 0, id |-> 0]

\* ---- the htlcs table: PRIMARY KEY(peer, id) ----
\* INSERT INTO htlcs: refused when the key is taken
insert_htlcs(tbl, row) ==
    IF \E x \in tbl : x.peer = row.peer /\ x.id = row.id
    THEN [errmsg |-> TRUE, tbl |-> tbl]
    ELSE [errmsg |-> FALSE, tbl |-> tbl \cup {row}]

\* UPDATE htlcs SET state WHERE peer AND id AND state: no error, whatever
\* the number of rows it changes
update_htlcs_state(tbl, p, id, newstate, oldstate) ==
    [errmsg |-> FALSE,
     tbl |-> {IF x.peer = p /\ x.id = id /\ x.state = oldstate
              THEN [x EXCEPT !.state = newstate] ELSE x : x \in tbl}]

\* UPDATE htlcs SET r WHERE peer AND id AND state
update_htlcs_r(tbl, p, id, state) ==
    [errmsg |-> FALSE,
     tbl |-> {IF x.peer = p /\ x.id = id /\ x.state = state
              THEN [x EXCEPT !.r = TRUE] ELSE x : x \in tbl}]

\* db_new_htlc: the statement it runs, and what it returns.  The src_peer
\* column is given the id of the HTLC's own peer.
db_new_htlc_exec(tbl, p, htlc) ==
    LET row == [peer |-> p, id |-> htlc.id, state |-> htlc.state,
                msatoshis |-> htlc.msatoshis, r |-> FALSE,
                src_peer |-> IF htlc.src # NoSrc THEN SqlPubkey(p) ELSE SqlNull,
                src_id |-> IF htlc.src # NoSrc THEN SqlInt(htlc.src.id) ELSE SqlNull]
        e == insert_htlcs(tbl, row)
    IN  [ok |-> ~e.errmsg, tbl |-> e.tbl]

\* db_update_htlc_state: the statement it runs, and what it returns.
\* htlc.state is the new state.
db_update_htlc_state_exec(tbl, p, htlc, oldstate) ==
    LET e == update_htlcs_state(tbl, p, htlc.id, htlc.state, oldstate)
    IN  [ok |-> ~e.errmsg, tbl |-> e.tbl]

\* db_htlc_fulfilled: the statement it runs, and what it returns
db_htlc_fulfilled_exec(tbl, p, htlc) ==
    LET e == update_htlcs_r(tbl, p, htlc.id, htlc.state)
    IN  [ok |-> ~e.errmsg, tbl |-> e.tbl]

\* ---- db_load_peers ----
\* F of the value of v: v is computed once, as a statement of the code
\* computes what it assigns once
Then(v, F(_)) == CHOOSE y \in {F(x) : x \in {v}} : TRUE

\* SELECT * FROM htlcs WHERE peer = p ORDER BY id
RECURSIVE OrderById(_)
OrderById(rows) ==
    IF rows = {} THEN <<>>
    ELSE LET first == CHOOSE x \in rows : \A y \in rows : x.id <= y.id
         IN  <<first>> \o OrderById(rows \ {first})

select_htlcs(tbl, p) == OrderById({x \in tbl : x.peer = p})

\* peer_new_htlc for a row: the HTLC as the cstate functions take it
htlc_of_row(row) ==
    [id |-> row.id, state |-> row.state, msatoshis |-> row.msatoshis,
     r |-> row.r, src |-> NoSrc,
     side |-> IF htlc_state_owner(row.state) = "LOCAL" THEN OURS ELSE THEIRS]

\* This htlc no longer committed; either resolved or failed.
htlc_resolved(cs, htlc) ==
    IF htlc.r THEN cstate_fulfill_htlc(cs, htlc) ELSE cstate_fail_htlc(cs, htlc)

\* one side of the loop body of load_peer_htlcs: add if ever committed there,
\* resolve if no longer committed there
replay_side(c, htlc, was, now) ==
    IF c.fatal \/ ~was THEN c
    ELSE Then(cstate_add_htlc(c.cstate, htlc),
              LAMBDA a :
                 IF ~a.ok THEN [c EXCEPT !.fatal = TRUE]
                 ELSE IF ~now THEN [c EXCEPT !.cstate = htlc_resolved(a.cs, htlc)]
                 ELSE [c EXCEPT !.cstate = a.cs])

\* mutant: the counter follows the ids of their HTLCs too
update_htlc_id_counter_AnyOwner(counter, htlc) ==
    IF htlc.id >= counter THEN htlc.id + 1 ELSE counter

\* Update htlc_id_counter if this is the highest we have seen of ours
update_htlc_id_counter(counter, htlc) ==
    IF htlc_owner(htlc) = "LOCAL" /\ htlc.id >= counter
    THEN htlc.id + 1 ELSE counter

\* the loop body of load_peer_htlcs, for one row
load_htlc_row(p, row) ==
    Then(htlc_of_row(row), LAMBDA htlc :
    Then(replay_side([fatal |-> p.fatal, cstate |-> p.local_commit], htlc,
                     HTLC_LOCAL_F_WAS_COMMITTED(htlc.state),
                     HTLC_LOCAL_F_COMMITTED(htlc.state)), LAMBDA l :
    Then(replay_side([fatal |-> l.fatal, cstate |-> p.remote_commit], htlc,
                     HTLC_REMOTE_F_WAS_COMMITTED(htlc.state),
                     HTLC_REMOTE_F_COMMITTED(htlc.state)), LAMBDA r :
        [p EXCEPT
           !.htlcs = @ \cup {htlc},
           !.htlc_id_counter = update_htlc_id_counter(@, htlc),
           !.local_commit = l.cstate,
           !.remote_commit = r.cstate,
           !.fatal = r.fatal])))

RECURSIVE load_htlc_rows(_, _)
load_htlc_rows(p, rows) ==
    IF rows = <<>> \/ p.fatal THEN p
    ELSE Then(load_htlc_row(p, Head(rows)),
              LAMBDA q : load_htlc_rows(q, Tail(rows)))

\* load_peer_htlcs: both commit cstates start from initial_cstate and every
\* row is run through; the staging cstates are copies of the result.
load_peer_htlcs(p, tbl) ==
    Then([p EXCEPT
            !.local_commit = initial_cstate(p.anchor, p.local_fee_rate, p.funder),
            !.remote_commit = initial_cstate(p.anchor, p.remote_fee_rate, p.funder)],
         LAMBDA p0 :
    Then(load_htlc_rows(p0, select_htlcs(tbl, p.id)), LAMBDA p1 :
        [p1 EXCEPT !.remote_staging = p1.remote_commit,
                   !.local_staging = p1.local_commit]))

\* load_peer_commit_info: the xmit_order column of the two rows
load_peer_commit_info(p, commit_info) ==
    [p EXCEPT !.local_order = commit_info[OURS].xmit_order,
              !.remote_order = commit_info[THEIRS].xmit_order]

\* load_peer_closing: the row, if there is one
load_peer_closing(p, closing) ==
    IF closing = {} THEN p
    ELSE LET row == CHOOSE x \in closing : TRUE
         IN  [p EXCEPT !.shutdown_order = row.shutdown_order,
                       !.closing_order = row.closing_order]

\* mutant: the closing orders are not looked at
restore_peer_local_visible_state_CommitsOnly(p) ==
    LET c1 == IF p.local_order + 1 > 0 THEN p.local_order + 1 ELSE 0
        c2 == IF p.remote_order + 1 > c1 THEN p.remote_order + 1 ELSE c1
    IN  [p EXCEPT !.order_counter = c2]

\* restore_peer_local_visible_state: order_counter
restore_peer_local_visible_state(p) ==
    LET c1 == IF p.local_order + 1 > 0 THEN p.local_order + 1 ELSE 0
        c2 == IF p.remote_order + 1 > c1 THEN p.remote_order + 1 ELSE c1
        c3 == IF p.closing_order + 1 > c2 THEN p.closing_order + 1 ELSE c2
        c4 == IF p.shutdown_order + 1 > c3 THEN p.shutdown_order + 1 ELSE c3
    IN  [p EXCEPT !.order_counter = c4]

\* htlc_get(&peer->htlcs, id, owner) of the peer with that key; NULL if the
\* peer has no such HTLC
htlc_get(peers, key, id, owner) ==
    \E p \in peers : /\ p.id = key
                     /\ \E h \in p.htlcs : h.id = id /\ htlc_owner(h) = owner

find_peer(peers, key) == \E p \in peers : p.id = key

\* the rows connect_htlc_src selects
select_htlc_src(tbl) ==
    {x \in tbl : /\ x.src_peer # SqlNull
                 /\ x.state # "RCVD_REMOVE_ACK_REVOCATION"
                 /\ x.state # "SENT_REMOVE_ACK_REVOCATION"}

\* connect_htlc_src, for one selected row (columns peer, id, state, src_peer,
\* src_id are 0 .. 4): the source peer is decoded from column 4 and the source
\* HTLC is looked up by column 4.  "skip" - no such peer; "fatal"; or the link.
connect_row(peers, x) ==
    LET key == pubkey_from_sql(x.src_id)
    IN  IF ~find_peer(peers, x.peer) THEN [res |-> "skip"]
        ELSE IF ~htlc_get(peers, x.peer, x.id, htlc_state_owner(x.state))
        THEN [res |-> "fatal"]
        ELSE IF ~key.ok THEN [res |-> "fatal"]
        ELSE IF ~find_peer(peers, key.id) THEN [res |-> "fatal"]
        ELSE IF ~htlc_get(peers, key.id, x.src_id.val, "REMOTE")
        THEN [res |-> "fatal"]
        ELSE [res |-> "link", peer |-> x.peer, id |-> x.id,
              src |-> [peer |-> key.id, id |-> x.src_id.val]]

connect_htlc_src(peers, tbl) ==
    Then({connect_row(peers, x) : x \in select_htlc_src(tbl)}, LAMBDA done :
        [fatal |-> \E d \in done : d.res = "fatal",
         links |-> {d \in done : d.res = "link"}])

\* new_peer, as db_load_peers sets it up from the peers, anchors and
\* their_visible_state rows
new_peer(key, params) ==
    [id |-> key, fatal |-> FALSE, htlcs |-> {}, htlc_id_counter |-> 0,
     anchor |-> params.anchor, funder |-> params.funder,
     local_fee_rate |-> params.local_fee_rate,
     remote_fee_rate |-> params.remote_fee_rate,
     local_commit |-> NULL, remote_commit |-> NULL,
     local_staging |-> NULL, remote_staging |-> NULL,
     local_order |-> 0, remote_order |-> 0,
     shutdown_order |-> 0, closing_order |-> 0, order_counter |-> 0]

\* the per-peer part of db_load_peers
load_peer(key, st) ==
    Then(new_peer(key, st.peers[key]), LAMBDA p0 :
    Then(load_peer_closing(p0, st.closing[key]), LAMBDA p1 :
    Then(load_peer_commit_info(p1, st.commit_info[key]), LAMBDA p2 :
    Then(load_peer_htlcs(p2, st.htlcs), LAMBDA p3 :
        restore_peer_local_visible_state(p3)))))

\* db_load_peers: every peer, then the upstream links
db_load_peers(st) ==
    Then({load_peer(key, st) : key \in DOMAIN st.peers}, LAMBDA peers :
    Then(connect_htlc_src(peers, st.htlcs), LAMBDA c :
        [fatal |-> c.fatal \/ \E p \in peers : p.fatal,
         peer  |-> CHOOSE p \in peers : p.id = ThisPeer,
         links |-> c.links]))

\* ---- the live channel ----
\* What peer.c does with a change is not part of the sources at hand; it
\* follows the protocol step of the design: a change is applied to both
\* staging cstates when it is made, each commitment is minted from its
\* staging cstate, and every step is written to the tables in its own
\* transaction.  One change is in flight at a time.
NotLoaded == [loaded |-> FALSE]

LoadFrame == UNCHANGED <<chanVars, revVars, dnsVars, dbVars>>

\* the anchor and fee rates of the channels followed
RestartAnchor  == 1000
RestartFeeRate == 50

\* new_commit_info: a commitment not sent yet has order -1
NoOrder == -1

StateAt(owner, rung) == Ladder(owner)[rung]

\* no change is on its way through the commit/revocation exchange
Settled(htlcs) == \A h \in htlcs : Rung(h.state) \in {5, LadderLen}

\* the HTLC that SrcPeer offered and that is forwarded
SrcRow ==
    [peer |-> SrcPeer, id |-> SrcHtlcId, state |-> "RCVD_ADD_ACK_REVOCATION",
     msatoshis |-> 100000, r |-> FALSE, src_peer |-> SqlNull, src_id |-> SqlNull]

LoadInit ==
    /\ \E funder \in Sides :
         LET cs == initial_cstate(RestartAnchor, RestartFeeRate, funder)
             params == [anchor |-> RestartAnchor, funder |-> funder,
                        local_fee_rate |-> RestartFeeRate,
                        remote_fee_rate |-> RestartFeeRate]
             orders == [s \in Sides |-> [xmit_order |-> NoOrder]]
         IN  /\ live = [htlcs |-> {}, htlc_id_counter |-> 0,
                        local_commit |-> cs, remote_commit |-> cs,
                        local_staging |-> cs, remote_staging |-> cs,
                        local_order |-> NoOrder, remote_order |-> NoOrder,
                        shutdown_order |-> 0, closing_order |-> 0,
                        order_counter |-> 0, closing |-> "none",
                        update |-> [op |-> "none"]]
             /\ store = [peers |-> (ThisPeer :> params)
                                   @@ (SrcPeer :> [params EXCEPT !.funder = THEIRS]),
                         htlcs |-> {SrcRow},
                         commit_info |-> [k \in {ThisPeer, SrcPeer} |-> orders],
                         closing |-> [k \in {ThisPeer, SrcPeer} |-> {}]]
    /\ loaded = NotLoaded

Running == loaded = NotLoaded

\* ---- the packets that add, fulfil and fail HTLCs ----
\* what an acceptor returns for a packet it takes: NULL, no ERROR packet
NoError == ""

\* BOLT #2: no more than 300 HTLCs offered in the remote commitment
MaxHtlcsPerSide == 300

\* the kinds of locktime a packet can carry; anything else does not convert
proto_to_abs_locktime(l) == l.kind \in {"blocks", "seconds"}

abs_locktime_is_seconds(l) == l.kind = "seconds"

abs_locktime_to_blocks(l) == l.value

\* no preimage stored: h->r is NULL
NoR == <<>>

\* htlc_get on the HTLCs of one peer: those with this id and owner
HtlcsWith(htlcs, id, owner) ==
    {h \in htlcs : h.id = id /\ htlc_owner(h) = owner}

peer_new_htlc(id, msatoshis, rhash, expiry, state) ==
    [id |-> id, state |-> state, msatoshis |-> msatoshis, rhash |-> rhash,
     expiry |-> expiry, r |-> NoR,
     side |-> IF htlc_state_owner(state) = "LOCAL" THEN OURS ELSE THEIRS]

\* accept_pkt_htlc_add without the test of amount_msat
accept_pkt_htlc_add_ZeroAmount(l, u) ==
    IF ~proto_to_abs_locktime(u.expiry)
    THEN [err |-> "Invalid HTLC expiry", h |-> NULL]
    ELSE IF abs_locktime_is_seconds(u.expiry)
    THEN [err |-> "HTLC expiry in seconds not supported!", h |-> NULL]
    ELSE IF l.remote_staging.side[THEIRS].num_htlcs = MaxHtlcsPerSide
    THEN [err |-> "Too many HTLCs", h |-> NULL]
    ELSE IF HtlcsWith(l.htlcs, u.id, "REMOTE") # {}
    THEN [err |-> "HTLC id clashes for you", h |-> NULL]
    ELSE [err |-> NoError,
          h   |-> peer_new_htlc(u.id, u.amount_msat, u.r_hash,
                                abs_locktime_to_blocks(u.expiry), "RCVD_ADD_HTLC")]

\* accept_pkt_htlc_add without the limit on the HTLCs they offer
accept_pkt_htlc_add_NoLimit(l, u) ==
    IF u.amount_msat = 0
    THEN [err |-> "Invalid amount_msat", h |-> NULL]
    ELSE IF ~proto_to_abs_locktime(u.expiry)
    THEN [err |-> "Invalid HTLC expiry", h |-> NULL]
    ELSE IF abs_locktime_is_seconds(u.expiry)
    THEN [err |-> "HTLC expiry in seconds not supported!", h |-> NULL]
    ELSE IF HtlcsWith(l.htlcs, u.id, "REMOTE") # {}
    THEN [err |-> "HTLC id clashes for you", h |-> NULL]
    ELSE [err |-> NoError,
          h   |-> peer_new_htlc(u.id, u.amount_msat, u.r_hash,
                                abs_locktime_to_blocks(u.expiry), "RCVD_ADD_HTLC")]

\* accept_pkt_htlc_add without the test for an id they used already
accept_pkt_htlc_add_NoClashCheck(l, u) ==
    IF u.amount_msat = 0
    THEN [err |-> "Invalid amount_msat", h |-> NULL]
    ELSE IF ~proto_to_abs_locktime(u.expiry)
    THEN [err |-> "Invalid HTLC expiry", h |-> NULL]
    ELSE IF abs_locktime_is_seconds(u.expiry)
    THEN [err |-> "HTLC expiry in seconds not supported!", h |-> NULL]
    ELSE IF l.remote_staging.side[THEIRS].num_htlcs = MaxHtlcsPerSide
    THEN [err |-> "Too many HTLCs", h |-> NULL]
    ELSE [err |-> NoError,
          h   |-> peer_new_htlc(u.id, u.amount_msat, u.r_hash,
                                abs_locktime_to_blocks(u.expiry), "RCVD_ADD_HTLC")]

\* accept_pkt_htlc_add: UPDATE_ADD_HTLC{id, amount_msat, r_hash, expiry}
accept_pkt_htlc_add(l, u) ==
    IF u.amount_msat = 0
    THEN [err |-> "Invalid amount_msat", h |-> NULL]
    ELSE IF ~proto_to_abs_locktime(u.expiry)
    THEN [err |-> "Invalid HTLC expiry", h |-> NULL]
    ELSE IF abs_locktime_is_seconds(u.expiry)
    THEN [err |-> "HTLC expiry in seconds not supported!", h |-> NULL]
    ELSE IF l.remote_staging.side[THEIRS].num_htlcs = MaxHtlcsPerSide
    THEN [err |-> "Too many HTLCs", h |-> NULL]
    ELSE IF HtlcsWith(l.htlcs, u.id, "REMOTE") # {}
    THEN [err |-> "HTLC id clashes for you", h |-> NULL]
    ELSE [err |-> NoError,
          h   |-> peer_new_htlc(u.id, u.amount_msat, u.r_hash,
                                abs_locktime_to_blocks(u.expiry), "RCVD_ADD_HTLC")]

\* find_commited_htlc taking an HTLC of ours in any state
find_commited_htlc_AnyState(l, id) ==
    IF HtlcsWith(l.htlcs, id, "LOCAL") = {}
    THEN [err |-> "Did not find HTLC", h |-> NULL]
    ELSE [err |-> NoError,
          h   |-> CHOOSE h \in HtlcsWith(l.htlcs, id, "LOCAL") : TRUE]

find_commited_htlc(l, id) ==
    IF HtlcsWith(l.htlcs, id, "LOCAL") = {}
    THEN [err |-> "Did not find HTLC", h |-> NULL]
    ELSE LET local_htlc == CHOOSE h \in HtlcsWith(l.htlcs, id, "LOCAL") : TRUE
         IN  IF local_htlc.state # "SENT_ADD_ACK_REVOCATION"
             THEN [err |-> "HTLC state", h |-> local_htlc]
             ELSE [err |-> NoError, h |-> local_htlc]

\* accept_pkt_htlc_fail: UPDATE_FAIL_HTLC{id}
accept_pkt_htlc_fail(l, f) == find_commited_htlc(l, f.id)

\* was_already_fulfilled is written only when the packet is accepted
NotReported == "not reported"

\* accept_pkt_htlc_fulfill storing the preimage whether or not one is stored
accept_pkt_htlc_fulfill_NeverAlready(l, f) ==
    LET c == find_commited_htlc(l, f.id)
    IN  IF c.err # NoError
        THEN [err |-> c.err, h |-> c.h, was_already_fulfilled |-> NotReported]
        ELSE IF sha256(f.r) # c.h.rhash
        THEN [err |-> "Invalid r", h |-> c.h, was_already_fulfilled |-> NotReported]
        ELSE [err |-> NoError, h |-> [c.h EXCEPT !.r = f.r],
              was_already_fulfilled |-> "false"]

\* accept_pkt_htlc_fulfill: UPDATE_FULFILL_HTLC{id, r}; h is the HTLC as the
\* acceptor leaves it
accept_pkt_htlc_fulfill(l, f) ==
    LET c == find_commited_htlc(l, f.id)
    IN  IF c.err # NoError
        THEN [err |-> c.err, h |-> c.h, was_already_fulfilled |-> NotReported]
        ELSE IF sha256(f.r) # c.h.rhash
        THEN [err |-> "Invalid r", h |-> c.h, was_already_fulfilled |-> NotReported]
        ELSE IF c.h.r # NoR
        THEN [err |-> NoError, h |-> c.h, was_already_fulfilled |-> "true"]
        ELSE [err |-> NoError, h |-> [c.h EXCEPT !.r = f.r],
              was_already_fulfilled |-> "false"]

\* a new HTLC is applied to both staging cstates and inserted
AddHtlcLive(h) ==
    LET a == cstate_add_htlc(live.local_staging, h)
        b == cstate_add_htlc(live.remote_staging, h)
        w == db_new_htlc_exec(store.htlcs, ThisPeer, h)
    IN  /\ a.ok /\ b.ok /\ w.ok
        /\ live' = [live EXCEPT
                      !.htlcs = @ \cup {h},
                      !.local_staging = a.cs,
                      !.remote_staging = b.cs,
                      !.htlc_id_counter = IF htlc_owner(h) = "LOCAL" THEN @ + 1 ELSE @,
                      !.update = [op |-> "none"]]
        /\ store' = [store EXCEPT !.htlcs = w.tbl]
        /\ UNCHANGED loaded
        /\ LoadFrame

\* we offer an HTLC, our own or one forwarded from SrcPeer
LocalAdd ==
    /\ Running
    /\ Settled(live.htlcs)
    /\ live.closing = "none"
    /\ Cardinality(live.htlcs) < MaxStored
    /\ \E m \in HtlcAmounts, src \in {NoSrc, [peer |-> SrcPeer, id |-> SrcHtlcId]} :
          /\ \A h \in live.htlcs : src = NoSrc \/ h.src # src
          /\ AddHtlcLive([id |-> live.htlc_id_counter, state |-> "SENT_ADD_HTLC",
                       msatoshis |-> m, r |-> FALSE, src |-> src, side |-> OURS])

\* they offer an HTLC
RemoteAdd ==
    /\ Running
    /\ Settled(live.htlcs)
    /\ live.closing = "none"
    /\ Cardinality(live.htlcs) < MaxStored
    /\ \E m \in HtlcAmounts, id \in 0 .. MaxHtlcId :
          /\ accept_pkt_htlc_add(live, [id |-> id, amount_msat |-> m,
                                        r_hash |-> NoHash,
                                        expiry |-> [kind |-> "blocks", value |-> 0]]).err
               = NoError
          /\ AddHtlcLive([id |-> id, state |-> "RCVD_ADD_HTLC",
                          msatoshis |-> m, r |-> FALSE, src |-> NoSrc,
                          side |-> THEIRS])

\* the state stored for HTLC id of this peer
stored_state(tbl, id) ==
    (CHOOSE x \in tbl : x.peer = ThisPeer /\ x.id = id).state

\* a call of db_update_htlc_state as it was made and as it came back
UpdateCall(tbl, htlc, oldstate, w) ==
    [op |-> "update", id |-> htlc.id, oldstate |-> oldstate,
     newstate |-> htlc.state,
     stored_before |-> stored_state(tbl, htlc.id),
     stored_after |-> stored_state(w.tbl, htlc.id),
     returned |-> w.ok]

\* an HTLC committed on both sides is fulfilled or failed by the side it was
\* offered to
RemoveHtlc ==
    /\ Running
    /\ Settled(live.htlcs)
    /\ \E h \in live.htlcs, fulfill \in BOOLEAN :
          /\ Rung(h.state) = 5
          /\ LET h1 == [h EXCEPT !.r = fulfill]
                 h2 == [h1 EXCEPT !.state = StateAt(htlc_owner(h), 6)]
                 w1 == IF fulfill
                       THEN db_htlc_fulfilled_exec(store.htlcs, ThisPeer, h1)
                       ELSE [ok |-> TRUE, tbl |-> store.htlcs]
                 w2 == db_update_htlc_state_exec(w1.tbl, ThisPeer, h2, h.state)
             IN  /\ live' = [live EXCEPT
                               !.htlcs = (@ \ {h}) \cup {h2},
                               !.local_staging = htlc_resolved(@, h1),
                               !.remote_staging = htlc_resolved(@, h1),
                               !.update = UpdateCall(w1.tbl, h2, h.state, w2)]
                 /\ store' = [store EXCEPT !.htlcs = w2.tbl]
    /\ UNCHANGED loaded
    /\ LoadFrame

\* The change in flight takes its next step in the commit/revocation
\* exchange.  A step that changes what a side has committed to mints that
\* side's commitment from its staging cstate and stamps it.
Advance ==
    /\ Running
    /\ \E h \in live.htlcs :
          /\ Rung(h.state) \notin {5, LadderLen}
          /\ LET new == StateAt(htlc_owner(h), Rung(h.state) + 1)
                 h2  == [h EXCEPT !.state = new]
                 mintl == HTLC_LOCAL_F_COMMITTED(new) # HTLC_LOCAL_F_COMMITTED(h.state)
                 mintr == HTLC_REMOTE_F_COMMITTED(new) # HTLC_REMOTE_F_COMMITTED(h.state)
                 w   == db_update_htlc_state_exec(store.htlcs, ThisPeer, h2, h.state)
                 ci  == store.commit_info[ThisPeer]
             IN  /\ live' = [live EXCEPT
                               !.htlcs = (@ \ {h}) \cup {h2},
                               !.local_commit = IF mintl THEN live.local_staging ELSE @,
                               !.remote_commit = IF mintr THEN live.remote_staging ELSE @,
                               !.local_order = IF mintl THEN live.order_counter ELSE @,
                               !.remote_order = IF mintr THEN live.order_counter ELSE @,
                               !.order_counter = IF mintl \/ mintr THEN @ + 1 ELSE @,
                               !.update = UpdateCall(store.htlcs, h2, h.state, w)]
                 /\ store' = [store EXCEPT
                                !.htlcs = w.tbl,
                                !.commit_info[ThisPeer] =
                                    [ci EXCEPT
                                       ![OURS].xmit_order =
                                           IF mintl THEN live.order_counter ELSE @,
                                       ![THEIRS].xmit_order =
                                           IF mintr THEN live.order_counter ELSE @]]
    /\ UNCHANGED loaded
    /\ LoadFrame

\* db_update_htlc_state is called once more for the step an HTLC took last
RepeatUpdate ==
    /\ Running
    /\ live.update.op = "update"
    /\ \E h \in live.htlcs :
          /\ h.id = live.update.id
          /\ h.state = live.update.newstate
          /\ Rung(h.state) >= 2
          /\ LET old == StateAt(htlc_owner(h), Rung(h.state) - 1)
                 w   == db_update_htlc_state_exec(store.htlcs, ThisPeer, h, old)
                 u   == UpdateCall(store.htlcs, h, old, w)
             IN  /\ live.update # u
                 /\ live' = [live EXCEPT !.update = u]
                 /\ store' = [store EXCEPT !.htlcs = w.tbl]
    /\ UNCHANGED loaded
    /\ LoadFrame

\* we send our close_shutdown: db_begin_shutdown, db_set_our_closing_script
BeginShutdown ==
    /\ Running
    /\ Settled(live.htlcs)
    /\ live.closing = "none"
    /\ live' = [live EXCEPT !.closing = "shutdown",
                            !.shutdown_order = live.order_counter,
                            !.order_counter = @ + 1,
                            !.update = [op |-> "none"]]
    /\ store' = [store EXCEPT
                   !.closing[ThisPeer] = {[shutdown_order |-> live.order_counter,
                                           closing_order |-> 0]}]
    /\ UNCHANGED loaded
    /\ LoadFrame

\* we send our close_signature: db_update_our_closing
UpdateOurClosing ==
    /\ Running
    /\ live.closing = "shutdown"
    /\ \A h \in live.htlcs : Rung(h.state) = LadderLen
    /\ live' = [live EXCEPT !.closing = "closing",
                            !.closing_order = live.order_counter,
                            !.order_counter = @ + 1,
                            !.update = [op |-> "none"]]
    /\ store' = [store EXCEPT
                   !.closing[ThisPeer] = {[x EXCEPT !.closing_order = live.order_counter]
                                          : x \in @}]
    /\ UNCHANGED loaded
    /\ LoadFrame

\* the daemon stops and starts again: db_load_peers
Restart ==
    /\ Running
    /\ loaded' = db_load_peers(store)
    /\ UNCHANGED <<live, store>>
    /\ LoadFrame

LoadNext ==
    \/ LocalAdd
    \/ RemoteAdd
    \/ RemoveHtlc
    \/ Advance
    \/ RepeatUpdate
    \/ BeginShutdown
    \/ UpdateOurClosing
    \/ Restart

(***************************************************************************)
(*                            SPECIFICATIONS                               *)
(***************************************************************************)
RevIdle == peer = NULL /\ rev = NULL
DnsIdle == dns = NULL /\ attempts = NULL
DbIdle  == db = NULL /\ dblog = NULL
LoadIdle == live = NULL /\ store = NULL /\ loaded = NULL

InitChannel == ChannelInit /\ RevIdle /\ DnsIdle /\ DbIdle /\ LoadIdle

SpecChannel == InitChannel /\ [][ChannelNext]_vars

ChannelIdle == cstate = NULL /\ present = NULL /\ last = NULL

InitRevocation == RevInit /\ ChannelIdle /\ DnsIdle /\ DbIdle /\ LoadIdle

SpecRevocation == InitRevocation /\ [][RevNext]_vars

InitDns == DnsInit /\ ChannelIdle /\ RevIdle /\ DbIdle /\ LoadIdle

SpecDns == InitDns /\ [][DnsNext]_vars

InitDb == DbInit /\ ChannelIdle /\ RevIdle /\ DnsIdle /\ LoadIdle

SpecDb == InitDb /\ [][DbNext]_vars

InitRestart == LoadInit /\ ChannelIdle /\ RevIdle /\ DnsIdle /\ DbIdle

SpecRestart == InitRestart /\ [][LoadNext]_vars

(***************************************************************************)
(*                               CLAIMS                                    *)
(***************************************************************************)
Balances(cs) == cs.side[OURS].pay_msat + cs.side[OURS].fee_msat
                + cs.side[THEIRS].pay_msat + cs.side[THEIRS].fee_msat

Outstanding == LET RECURSIVE Sum(_)
                   Sum(S) == IF S = {} THEN 0
                             ELSE LET k == CHOOSE x \in S : TRUE
                                  IN  present[k] * k.msatoshis + Sum(S \ {k})
               IN  Sum(HtlcKinds)

\* C1 (as stated): in every reachable channel state the four balances alone
\* add up to the anchor: anchor * 1000 = sum(pay_msat) + sum(fee_msat).
C1_Original == cstate.anchor * 1000 = Balances(cstate)

\* C1 (amended): in every channel state reached from initial_cstate by
\* cstate_add_htlc, cstate_fulfill_htlc, cstate_fail_htlc (of present HTLCs),
\* adjust_fee and force_fee, the four balances plus the msatoshis of the HTLCs
\* currently in the cstate add up to anchor * 1000.
C1_Conservation == cstate.anchor * 1000 = Balances(cstate) + Outstanding

\* an HTLC is outstanding after fee changes, adds and removals have all run
C1_Witness == /\ NumPresent >= 2
              /\ last.op \in {"force_fee", "adjust_fee"}
              /\ cstate.side[OURS].num_htlcs > 0
              /\ cstate.side[THEIRS].pay_msat > 0

FundsOf(cs, s) == cs.side[s].pay_msat + cs.side[s].fee_msat

\* the fee of the state a cstate_add_htlc of htlc would produce
FeeAfterAdd(cs, htlc) ==
    LET n == IF htlc.msatoshis \div 1000 < DustThreshold
             THEN cs.num_nondust ELSE cs.num_nondust + 1
    IN  ((((338 + 32 * n) * cs.fee_rate) \div 2000) * 2) * 1000

\* C2: cstate_add_htlc returns false exactly when the HTLC's msatoshis plus
\* half of the fee after the addition exceeds the offerer's pay_msat +
\* fee_msat, and then leaves the whole cstate as it was; otherwise it returns
\* true and the offerer's num_htlcs grows by one.
C2_AddRejectsExactlyUnaffordable ==
    last.op = "cstate_add_htlc" =>
        LET h == last.htlc
            s == h.side
            unaffordable == h.msatoshis + FeeAfterAdd(last.pre, h) \div 2
                              > FundsOf(last.pre, s)
        IN  /\ last.ok = ~unaffordable
            /\ ~last.ok => cstate = last.pre
            /\ last.ok  => cstate.side[s].num_htlcs = last.pre.side[s].num_htlcs + 1

\* a rejected add of an HTLC the offerer could pay for without the fee share
C2_Witness ==
    /\ last.op = "cstate_add_htlc"
    /\ ~last.ok
    /\ last.htlc.msatoshis <= FundsOf(last.pre, last.htlc.side)
    /\ NumPresent > 0


\* ---- revocation ----
Handled == rev.kind = "revocation"

\* C3 (as stated): accept_pkt_revocation, called while
\* their_prev_revocation_hash is set, accepts the packet if and only if
\* SHA256(revocation_preimage) equals their_prev_revocation_hash.
C3_Original ==
    (Handled /\ rev.pre.their_prev_revocation_hash # NoHash) =>
        (rev.outcome = "accepted"
           <=> sha256(rev.pkt.revocation_preimage) = rev.pre.their_prev_revocation_hash)

\* C3 (amended): accept_pkt_revocation, called while
\* their_prev_revocation_hash is set, accepts the packet if and only if
\* SHA256(revocation_preimage) equals their_prev_revocation_hash and
\* shachain_add_hash takes the preimage at index
\* 0xFFFFFFFFFFFFFFFF - (remote.commit.commit_num - 1); a preimage with the
\* right SHA256 that the shachain refuses is answered with an ERROR.
C3_AcceptIffHashAndShachain ==
    (Handled /\ rev.pre.their_prev_revocation_hash # NoHash) =>
        (rev.outcome = "accepted"
           <=> /\ sha256(rev.pkt.revocation_preimage)
                    = rev.pre.their_prev_revocation_hash
               /\ shachain_add_hash(rev.pre.their_preimages,
                                    rev.pre.remote.commit_num - 1,
                                    rev.pkt.revocation_preimage).ok)

\* a preimage with the right SHA256 is refused by the shachain
C3_Witness ==
    /\ Handled
    /\ rev.pre.their_prev_revocation_hash # NoHash
    /\ sha256(rev.pkt.revocation_preimage) = rev.pre.their_prev_revocation_hash
    /\ rev.outcome = "error"

\* strictly ascending distances from the top = strictly descending indices
StrictlyAscending(q) == \A i \in 1 .. Len(q) - 1 : q[i] < q[i + 1]

\* C4: whenever accept_pkt_revocation succeeds, the preimage is in the
\* shachain at index 0xFFFFFFFFFFFFFFFF - (remote.commit.commit_num - 1),
\* their_prev_revocation_hash is unset and remote.next_revocation_hash is the
\* packet's; over successive rounds the indices used strictly descend.
C4_AcceptedRevocationStored ==
    /\ (Handled /\ rev.outcome = "accepted") =>
          LET d   == peer.remote.commit_num - 1
              pos == count_trailing_zeroes(d)
          IN  /\ peer.their_preimages.min_index = d
              /\ peer.their_preimages.known[pos]
                    = [index |-> d, hash |-> rev.pkt.revocation_preimage]
              /\ peer.their_preimages.num_valid > pos
              /\ peer.their_prev_revocation_hash = NoHash
              /\ peer.remote.next_revocation_hash = rev.pkt.next_revocation_hash
              /\ rev.used[Len(rev.used)] = d
    /\ StrictlyAscending(rev.used)

\* the third revocation in a row has been accepted
C4_Witness ==
    /\ Handled
    /\ rev.outcome = "accepted"
    /\ Len(rev.used) = 3

\* the last accepted preimage comes again before any new commitment is sent
Duplicate ==
    /\ Handled
    /\ rev.pre.their_prev_revocation_hash = NoHash
    /\ rev.accepted # NoHash
    /\ rev.pkt.revocation_preimage = rev.accepted

\* C5: a second UPDATE_REVOCATION with the preimage just accepted, arriving
\* before any new commitment is sent, is rejected with an ERROR packet (the
\* process does not abort) and leaves the shachain and
\* remote.next_revocation_hash unchanged.
C5_DuplicateRevocationRejected ==
    Duplicate =>
        /\ rev.outcome = "error"
        /\ peer.their_preimages = rev.pre.their_preimages
        /\ peer.remote.next_revocation_hash = rev.pre.remote.next_revocation_hash

\* ---- resolve and connect ----
\* nothing is left to happen for this resolution
DnsQuiescent == dns.reader = "closed" /\ dns.conn \in {"none", "closed"}

\* C6: when no connect succeeds - the worker writing nothing and every
\* socket() failing included - the failure callback is invoked exactly once,
\* by whichever of reap_child and the last failing try_connect_one brings the
\* use count to zero: never twice, exactly when the count is zero, and once
\* by the time nothing is left to happen.
C6_FailExactlyOnce ==
    /\ dns.fails <= 1
    /\ dns.fails = 1 <=> dns.use = 0
    /\ dns.fails = 1 <=> dns.failed_by \in {"reap_child", "try_connect_one"}
    /\ (DnsQuiescent /\ dns.inits = 0) => dns.fails = 1

\* the worker exited first and the last of two failed connects called fail
C6_Witness ==
    /\ DnsQuiescent
    /\ dns.inits = 0
    /\ Len(attempts) = 2
    /\ dns.fails = 1
    /\ dns.failed_by = "try_connect_one"

\* C7: once a connect has succeeded and the connection was handed to init,
\* the failure callback is never invoked, whatever follows (reaping the
\* worker, the connection closing), and no further address is attempted.
C7_SuccessIsFinal ==
    dns.inits > 0 =>
        /\ dns.inits = 1
        /\ dns.fails = 0
        /\ Len(attempts) = dns.won

\* a connect succeeded with addresses left; the worker has been reaped and
\* the connection has closed since
C7_Witness ==
    /\ dns.inits = 1
    /\ dns.num_addresses > 0
    /\ DnsQuiescent

\* C8: the addresses are attempted one at a time in the order emitted, the
\* k-th connect targets the address consumed for that attempt's socket, and
\* no attempt uses a slot past the last address read from the pipe.
C8_ConnectTargetsConsumedAddress ==
    /\ \A i \in 1 .. Len(attempts) :
          /\ attempts[i].target = attempts[i].consumed
          /\ attempts[i].target <= Len(dns.array)
    /\ \A i \in 1 .. Len(attempts) - 1 :
          attempts[i].consumed < attempts[i + 1].consumed

\* ---- the transactional store ----
TxnOps == {"db_start_transaction", "db_commit_transaction", "db_abort_transaction"}

\* C9: db_start_transaction runs only with in_transaction false and sets it
\* exactly when BEGIN succeeds; db_commit_transaction and
\* db_abort_transaction run only with it true and leave it false; so no
\* begin succeeds inside a transaction, and the flag is true exactly from a
\* successful begin to the next commit or abort.
C9_TransactionFlag ==
    /\ (dblog.ran /\ dblog.op = "db_start_transaction") =>
          /\ dblog.pre = FALSE
          /\ db.in_transaction = dblog.ok
    /\ (dblog.ran /\ dblog.op \in {"db_commit_transaction", "db_abort_transaction"}) =>
          /\ dblog.pre = TRUE
          /\ db.in_transaction = FALSE
    /\ (~dblog.ran /\ dblog.op \in TxnOps) => db.in_transaction = dblog.pre
    /\ ~db.nested
    /\ db.in_transaction = db.open

\* a transaction has been committed, as the third call
C9_Witness ==
    /\ dblog.op = "db_commit_transaction"
    /\ dblog.ran
    /\ dblog.pre
    /\ db.n = 3
    /\ ~db.in_transaction

InTxnSites ==
    {"db_set_anchor", "db_update_next_revocation_hash", "db_new_htlc",
     "db_update_htlc_state", "db_update_state", "db_new_commit_info",
     "db_remove_their_prev_revocation_hash", "db_save_shachain",
     "db_add_commit_map", "db_begin_shutdown", "db_set_our_closing_script"}
OutTxnSites == {"db_set_their_closing_script", "db_update_their_closing"}
AnySites == {"db_htlc_fulfilled", "db_update_our_closing"}
WriteSites == InTxnSites \cup OutTxnSites \cup AnySites

\* C10 (as stated): every write of a protocol step executes only while
\* in_transaction is true, each write-site asserting the flag.
C10_Original ==
    (dblog.op \in WriteSites /\ dblog.ran) => dblog.pre = TRUE

\* C10 (amended): the writes of anchor, next revocation hash, new HTLC, HTLC
\* state, peer state, commit info, removal of their previous revocation
\* hash, shachain, commit map, start of shutdown and our closing script
\* assert in_transaction and execute only while it is true;
\* db_set_their_closing_script and db_update_their_closing assert that it is
\* false and execute only outside a transaction; db_htlc_fulfilled and
\* db_update_our_closing assert nothing and execute in either case.
C10_WriteSitesByAssertion ==
    /\ (dblog.op \in InTxnSites) => (dblog.ran <=> dblog.pre)
    /\ (dblog.op \in OutTxnSites) => (dblog.ran <=> ~dblog.pre)
    /\ (dblog.op \in AnySites) => dblog.ran
    /\ (dblog.op \in WriteSites) => db.in_transaction = dblog.pre

\* our closing fee is written outside a transaction, as the third call
C10_Witness ==
    /\ dblog.op = "db_update_our_closing"
    /\ dblog.ran
    /\ ~dblog.pre
    /\ db.n = 3

(***************************************************************************)
(*                     CLAIMS ON PERSISTENCE AND RESTART                   *)
(***************************************************************************)
\* C11: db_update_htlc_state returns false whenever the stored row's state
\* differs from oldstate (the guarded UPDATE changes no row), and the stored
\* state is then unchanged; it returns true only when the row in state
\* oldstate was moved to the new state.
C11_UpdateReportsZeroRows ==
    (live # NULL /\ live.update.op = "update") =>
        LET u == live.update
        IN  /\ u.stored_before # u.oldstate =>
                  (~u.returned /\ u.stored_after = u.stored_before)
            /\ u.returned =>
                  (u.stored_before = u.oldstate /\ u.stored_after = u.newstate)

Restarted == loaded # NULL /\ loaded # NotLoaded

\* C12: for any history of adds, fulfils and fails the live channel accepted,
\* the reload replays the stored HTLCs in ascending id without a fatal error
\* and yields local.commit and remote.commit cstates equal to the ones held
\* before the restart.
C12_ReplayRebuildsCommitCstates ==
    Restarted =>
        /\ ~loaded.peer.fatal
        /\ loaded.peer.local_commit = live.local_commit
        /\ loaded.peer.remote_commit = live.remote_commit

\* C13: after a restart that went through, local.staging_cstate and
\* remote.staging_cstate equal their values before the restart, also when an
\* HTLC had been proposed but not yet included in any commitment.
C13_RestartKeepsStagingCstates ==
    (Restarted /\ ~loaded.peer.fatal) =>
        /\ loaded.peer.local_staging = live.local_staging
        /\ loaded.peer.remote_staging = live.remote_staging

MaxOf(S) == CHOOSE m \in S : \A x \in S : m >= x

\* C14: after a restart, order_counter is 1 + the largest of
\* local.commit.order, remote.commit.order, closing.shutdown_order and
\* closing.closing_order, and so is greater than every order stamped before
\* the restart.
C14_OrderCounterAfterRestart ==
    (Restarted /\ ~loaded.peer.fatal) =>
        LET p == loaded.peer
        IN  /\ p.order_counter = 1 + MaxOf({p.local_order, p.remote_order,
                                            p.shutdown_order, p.closing_order})
            /\ p.order_counter > live.local_order
            /\ p.order_counter > live.remote_order
            /\ live.closing # "none" => p.order_counter > live.shutdown_order
            /\ live.closing = "closing" => p.order_counter > live.closing_order

\* a restart after the closing signature was stamped later than both
\* commitments
C14_Witness ==
    /\ Restarted
    /\ ~loaded.peer.fatal
    /\ live.closing = "closing"
    /\ live.remote_order >= 0
    /\ live.closing_order > live.remote_order
    /\ live.closing_order > live.local_order
    /\ loaded.peer.order_counter = live.closing_order + 1

StoredIds(owner) ==
    {x.id : x \in {y \in store.htlcs : /\ y.peer = ThisPeer
                                       /\ htlc_state_owner(y.state) = owner}}

\* C15: after a restart, htlc_id_counter is 1 + the largest id among the
\* stored LOCAL HTLCs (0 when there are none), which is the counter before
\* the restart, so the next id allocated is the id of no existing LOCAL HTLC.
C15_HtlcIdCounterAfterRestart ==
    (Restarted /\ ~loaded.peer.fatal) =>
        LET p == loaded.peer
        IN  /\ p.htlc_id_counter = IF StoredIds("LOCAL") = {} THEN 0
                                    ELSE 1 + MaxOf(StoredIds("LOCAL"))
            /\ p.htlc_id_counter = live.htlc_id_counter
            /\ ~\E h \in p.htlcs : /\ htlc_owner(h) = "LOCAL"
                                    /\ h.id = p.htlc_id_counter

\* a restart with one of our HTLCs stored and one of theirs with a larger id
C15_Witness ==
    /\ Restarted
    /\ ~loaded.peer.fatal
    /\ StoredIds("LOCAL") # {}
    /\ StoredIds("REMOTE") # {}
    /\ MaxOf(StoredIds("REMOTE")) > MaxOf(StoredIds("LOCAL"))
    /\ loaded.peer.htlc_id_counter = 1 + MaxOf(StoredIds("LOCAL"))

PastBothResolved(state) ==
    state \in {"RCVD_REMOVE_ACK_REVOCATION", "SENT_REMOVE_ACK_REVOCATION"}

\* C16: an HTLC persisted by db_new_htlc with an upstream link to HTLC j of
\* peer Q is, after a restart, linked again to the REMOTE HTLC j of Q, unless
\* its stored state is RCVD_REMOVE_ACK_REVOCATION or
\* SENT_REMOVE_ACK_REVOCATION, and then it is left unlinked; the load never
\* aborts on a correctly persisted link.
C16_UpstreamLinkRestored ==
    (Restarted /\ ~loaded.peer.fatal) =>
        /\ ~loaded.fatal
        /\ \A h \in live.htlcs :
              h.src # NoSrc =>
                 LET mine == {l \in loaded.links :
                                l.peer = ThisPeer /\ l.id = h.id}
                 IN  IF PastBothResolved(h.state) THEN mine = {}
                     ELSE mine = {[res |-> "link", peer |-> ThisPeer,
                                   id |-> h.id, src |-> h.src]}

(***************************************************************************)
(*                     CLAIMS ON THE CHANNEL STATE, CONTINUED              *)
(***************************************************************************)
\* the number of HTLCs of the kinds in S that are in the cstate
RECURSIVE PresentIn(_)
PresentIn(S) ==
    IF S = {} THEN 0
    ELSE LET k == CHOOSE x \in S : TRUE
         IN  present[k] + PresentIn(S \ {k})

\* C17: in every cstate reached by successful cstate_add_htlc and by
\* cstate_fulfill_htlc and cstate_fail_htlc of present HTLCs, num_nondust is
\* the number of present HTLCs whose msatoshis / 1000 is not dust, and
\* side[s].num_htlcs is the number of present HTLCs offered by side s.
C17_CountsMatchPresentHtlcs ==
    /\ cstate.num_nondust
         = PresentIn({k \in HtlcKinds : k.msatoshis \div 1000 >= DustThreshold})
    /\ \A s \in Sides :
         cstate.side[s].num_htlcs = PresentIn({k \in HtlcKinds : k.side = s})

\* a dust HTLC is present after a non-dust HTLC was added and removed again
C17_Witness ==
    /\ last.op \in {"cstate_fulfill_htlc", "cstate_fail_htlc"}
    /\ last.htlc.msatoshis \div 1000 >= DustThreshold
    /\ \E k \in HtlcKinds : k.msatoshis \div 1000 < DustThreshold /\ present[k] > 0
    /\ cstate.num_nondust = 0
    /\ cstate.side[OURS].num_htlcs + cstate.side[THEIRS].num_htlcs = 1

FeeSum(cs) == cs.side[OURS].fee_msat + cs.side[THEIRS].fee_msat

\* the calls that recompute the fee at the fee rate of the cstate
FeeRecomputed ==
    /\ last.op \in {"initial_cstate", "cstate_add_htlc",
                    "cstate_fulfill_htlc", "cstate_fail_htlc"}
    /\ last.ok

\* C18: the commitment fee is ((338 + 32 * num_nondust) * fee_rate / 2000 * 2)
\* * 1000 msat, the divisions truncating, and when the two sides together hold
\* at least that much the sum of their fee_msat is that fee; initial_cstate
\* for an anchor of 1,000,000 satoshi at fee rate 50,000 gives num_nondust 0,
\* the funder fee_msat 16,900,000 and pay_msat 983,100,000, the other side
\* pay_msat 0 and fee_msat 0.
C18_FeeFormulaAndInitialCstate ==
    /\ FeeRecomputed =>
          LET fee == ((((338 + 32 * cstate.num_nondust) * cstate.fee_rate)
                          \div 2000) * 2) * 1000
          IN  Balances(cstate) >= fee => FeeSum(cstate) = fee
    /\ (last.op = "initial_cstate" /\ cstate.anchor = 1000000
                                   /\ cstate.fee_rate = 50000) =>
          /\ cstate.num_nondust = 0
          /\ \E funder \in Sides :
                /\ cstate.side[funder] = [pay_msat |-> 983100000,
                                          fee_msat |-> 16900000, num_htlcs |-> 0]
                /\ cstate.side[Other(funder)] = [pay_msat |-> 0, fee_msat |-> 0,
                                                 num_htlcs |-> 0]

\* the initial cstate of the 1,000,000 satoshi anchor at fee rate 50,000
C18_Witness ==
    /\ last.op = "initial_cstate"
    /\ cstate.anchor = 1000000
    /\ cstate.fee_rate = 50000
    /\ FeeSum(cstate) = 16900000

\* a fee recomputed for a byte count times fee rate that is an odd number of
\* satoshis before the truncation
C18_WitnessOdd ==
    /\ FeeRecomputed
    /\ (((338 + 32 * cstate.num_nondust) * cstate.fee_rate) \div 1000) % 2 = 1
    /\ Balances(cstate) >= FeeSum(cstate)
    /\ FeeSum(cstate) > 0

\* the cstate of the 1,000,000 satoshi anchor at fee rate 50,000 with these
\* balances of the funder and nothing on the other side
ScenarioCstate(cs, funder, num_nondust, pay_msat, fee_msat, num_htlcs) ==
    /\ cs.anchor = 1000000
    /\ cs.fee_rate = 50000
    /\ cs.num_nondust = num_nondust
    /\ cs.side[funder] = [pay_msat |-> pay_msat, fee_msat |-> fee_msat,
                          num_htlcs |-> num_htlcs]
    /\ cs.side[Other(funder)] = [pay_msat |-> 0, fee_msat |-> 0, num_htlcs |-> 0]

\* cstate_add_htlc of 100,000,000 msat, offered by the funder, was called on
\* the initial cstate of that channel
AddedToInitial ==
    /\ last.op = "cstate_add_htlc"
    /\ last.htlc.msatoshis = 100000000
    /\ ScenarioCstate(last.pre, last.htlc.side, 0, 983100000, 16900000, 0)

\* C19: from the initial cstate of a 1,000,000 satoshi anchor at fee rate
\* 50,000, adding one HTLC of 100,000,000 msat offered by the funder succeeds
\* and gives num_nondust 1, the funder fee_msat 18,500,000 and pay_msat
\* 881,500,000, the other side pay_msat 0 and fee_msat 0.
C19_AddToInitialCstate ==
    AddedToInitial =>
        /\ last.ok
        /\ ScenarioCstate(cstate, last.htlc.side, 1, 881500000, 18500000, 1)

\* that add has been made
C19_Witness ==
    /\ AddedToInitial
    /\ last.ok
    /\ cstate.num_nondust = 1
    /\ present[last.htlc] = 1

\* cstate_fulfill_htlc of the 100,000,000 msat HTLC was called on the cstate
\* that add produced
FulfilledAfterAdd ==
    /\ last.op = "cstate_fulfill_htlc"
    /\ last.htlc.msatoshis = 100000000
    /\ ScenarioCstate(last.pre, last.htlc.side, 1, 881500000, 18500000, 1)

\* C20: fulfilling that HTLC leaves the side it was offered to with
\* 100,000,000 msat in pay_msat + fee_msat, num_nondust 0 again, and the sum
\* of both sides' fee_msat at 16,900,000 msat.
C20_FulfillAfterAdd ==
    FulfilledAfterAdd =>
        /\ FundsOf(cstate, Other(last.htlc.side)) = 100000000
        /\ cstate.num_nondust = 0
        /\ FeeSum(cstate) = 16900000

\* that fulfil has been made
C20_Witness ==
    /\ FulfilledAfterAdd
    /\ present[last.htlc] = 0
    /\ cstate.side[Other(last.htlc.side)].pay_msat > 0

\* the fee in msat for n non-dust HTLCs at a fee rate
FormulaFee(n, rate) == ((((338 + 32 * n) * rate) \div 2000) * 2) * 1000

Min(x, y) == IF x <= y THEN x ELSE y

\* the last call ran recalculate_fees on a cstate
Recalculated ==
    \/ last.op = "cstate_add_htlc" /\ last.ok
    \/ last.op \in {"cstate_fulfill_htlc", "cstate_fail_htlc", "adjust_fee"}
    \/ last.op = "force_fee" /\ last.arg # HugeFee

\* the total fee F that recalculation was run for
RecalcFee ==
    IF last.op = "adjust_fee" THEN FormulaFee(last.pre.num_nondust, last.arg)
    ELSE IF last.op = "force_fee" THEN last.arg * 1000
    ELSE FormulaFee(cstate.num_nondust, last.pre.fee_rate)

\* what side s held going into it, its previous fee folded back
RecalcFunds(s) ==
    FundsOf(last.pre, s)
      + (IF last.op = "cstate_add_htlc" /\ s = last.htlc.side
         THEN 0 - last.htlc.msatoshis
         ELSE IF last.op = "cstate_fail_htlc" /\ s = last.htlc.side
         THEN last.htlc.msatoshis
         ELSE IF last.op = "cstate_fulfill_htlc" /\ s = Other(last.htlc.side)
         THEN last.htlc.msatoshis
         ELSE 0)

\* C21: after a fee recalculation for a total fee F, if both sides hold at
\* least F/2 (previous fee folded back) each pays exactly F/2; otherwise a
\* side that cannot cover F/2 ends with pay_msat 0 and the other side pays the
\* shortfall up to its whole balance; the fee paid in total is the smaller of
\* F and the combined balance, and each side's pay_msat + fee_msat is as it
\* was going in.
C21_FeeSplit ==
    Recalculated =>
        LET F == RecalcFee
            half == F \div 2
        IN  /\ \A s \in Sides : FundsOf(cstate, s) = RecalcFunds(s)
            /\ FeeSum(cstate) = Min(F, RecalcFunds(OURS) + RecalcFunds(THEIRS))
            /\ (\A s \in Sides : RecalcFunds(s) >= half) =>
                  \A s \in Sides : cstate.side[s].fee_msat = half
            /\ \A s \in Sides :
                  RecalcFunds(s) < half =>
                     /\ cstate.side[s].pay_msat = 0
                     /\ cstate.side[Other(s)].fee_msat
                          = Min(RecalcFunds(Other(s)), F - RecalcFunds(s))

\* one side could not cover its half and the other paid the shortfall too
C21_Witness ==
    /\ Recalculated
    /\ \E s \in Sides :
          /\ RecalcFunds(s) > 0
          /\ RecalcFunds(s) < RecalcFee \div 2
          /\ cstate.side[s].pay_msat = 0
          /\ cstate.side[Other(s)].fee_msat > RecalcFee \div 2
          /\ cstate.side[Other(s)].pay_msat > 0


\* ---- C22: what fulfilling and failing an HTLC do to the two sides ----
Removed == last.op \in {"cstate_fulfill_htlc", "cstate_fail_htlc"}

Offerer == htlc_channel_side(last.htlc)

\* The side remove_htlc credits: the other side on fulfil, the offerer on fail.
Beneficiary == IF last.op = "cstate_fulfill_htlc" THEN Other(Offerer) ELSE Offerer

\* The conditions under which remove_htlc runs to its end: both asserts hold
\* and change_funding reports success.
RemoveCannotFail ==
    LET nondust == IF is_dust(last.htlc.msatoshis \div 1000)
                   THEN last.pre.num_nondust ELSE last.pre.num_nondust - 1
    IN  /\ nondust >= 0
        /\ last.pre.side[Offerer].num_htlcs > 0
        /\ change_funding(last.pre.anchor, last.pre.fee_rate,
                          0 - last.htlc.msatoshis,
                          last.pre.side[Beneficiary],
                          last.pre.side[Other(Beneficiary)], nondust).ok

\* C22: cstate_fulfill_htlc raises pay_msat + fee_msat of the side that did not
\* offer the HTLC by exactly msatoshis and leaves the offerer's sum alone;
\* cstate_fail_htlc raises the offerer's sum by msatoshis and leaves the other
\* side's alone; both take one off the offerer's num_htlcs, leave the other
\* side's count alone, and cannot fail.
C22_FulfillAndFail ==
    Removed =>
       /\ FundsOf(cstate, Beneficiary)
             = FundsOf(last.pre, Beneficiary) + last.htlc.msatoshis
       /\ FundsOf(cstate, Other(Beneficiary)) = FundsOf(last.pre, Other(Beneficiary))
       /\ cstate.side[Offerer].num_htlcs = last.pre.side[Offerer].num_htlcs - 1
       /\ cstate.side[Other(Offerer)].num_htlcs
             = last.pre.side[Other(Offerer)].num_htlcs
       /\ last.ok
       /\ RemoveCannotFail

C22_Witness ==
    /\ last.op = "cstate_fulfill_htlc"
    /\ last.htlc.msatoshis > 0
    /\ FundsOf(cstate, Other(Offerer)) > FundsOf(last.pre, Other(Offerer))

C22_WitnessFail ==
    /\ last.op = "cstate_fail_htlc"
    /\ last.htlc.msatoshis > 0
    /\ FundsOf(cstate, Offerer) > FundsOf(last.pre, Offerer)

\* ---- C23: adjust_fee and the stored fee rate ----
\* C23: after adjust_fee(cstate, r) the cstate's fee_rate is r, and the fee
\* charged is the formula fee at rate r (as far as the two sides can pay it).
C23_AdjustFeeStoresRate ==
    last.op = "adjust_fee" =>
       /\ cstate.fee_rate = last.arg
       /\ cstate.side[OURS].fee_msat + cstate.side[THEIRS].fee_msat
            = Min(FormulaFee(cstate.num_nondust, last.arg),
                  FundsOf(cstate, OURS) + FundsOf(cstate, THEIRS))

\* What the code does instead: the split is redone at rate r, the stored rate
\* stays what initial_cstate set.
C23_RateKept ==
    last.op = "adjust_fee" =>
       /\ cstate.fee_rate = last.pre.fee_rate
       /\ cstate.side[OURS].fee_msat + cstate.side[THEIRS].fee_msat
            = Min(FormulaFee(cstate.num_nondust, last.arg),
                  FundsOf(cstate, OURS) + FundsOf(cstate, THEIRS))

C23_Witness ==
    /\ last.op = "adjust_fee"
    /\ last.arg # last.pre.fee_rate
    /\ cstate.fee_rate # last.arg

\* ---- initial_cstate as a function of its arguments ----
\* Anchors around the fee for zero HTLCs at each rate, and around 2^32 / 1000.
\* (Anchors between 2^31 / 1000 and 2^32 / 1000 are left out: their
\* millisatoshi value exceeds the integers of the model checker.)
InitialAnchors == {0, 1, 15, 16, 17, 1000, 1857, 1858, 1859, 16899, 16900,
                   2147483, AnchorLimit, AnchorLimit + 1, 5000000}

InitialFeeRates == {0, 50, 5500, 50000}

\* the arguments of one call, before it is made
InitialArgs ==
    /\ \E a \in InitialAnchors, r \in InitialFeeRates, f \in Sides :
          last = [op |-> "arguments", anchor_satoshis |-> a, fee_rate |-> r,
                  funding |-> f]
    /\ cstate = NULL
    /\ present = NULL

CallInitialCstate ==
    /\ last.op = "arguments"
    /\ cstate' = initial_cstate(last.anchor_satoshis, last.fee_rate, last.funding)
    /\ last' = [last EXCEPT !.op = "initial_cstate"]
    /\ UNCHANGED present
    /\ ChanFrame

InitInitial == InitialArgs /\ RevIdle /\ DnsIdle /\ DbIdle /\ LoadIdle

SpecInitial == InitInitial /\ [][CallInitialCstate]_vars

\* the fee for zero HTLCs, in satoshi (calculate_fee_msat is a multiple of 1000)
ZeroHtlcFee(rate) == calculate_fee_msat(0, rate) \div 1000

\* C24: initial_cstate returns no state if anchor_satoshis * 1000 is less than
\* the fee for zero HTLCs or if anchor_satoshis exceeds 2^32 / 1000, and
\* returns a state for every other input, anchor_satoshis = 4,294,967 included.
C24_InitialCstateFailsOnlyWhen ==
    last.op = "initial_cstate" =>
       ( cstate = NULL <=> \/ last.anchor_satoshis < ZeroHtlcFee(last.fee_rate)
                           \/ last.anchor_satoshis > AnchorLimit )

\* What the code does: the anchor 2^32 / 1000 itself is refused as well.
C24_RefusedFromLimit ==
    last.op = "initial_cstate" =>
       ( cstate = NULL <=> \/ last.anchor_satoshis < ZeroHtlcFee(last.fee_rate)
                           \/ last.anchor_satoshis >= AnchorLimit )

C24_Witness ==
    /\ last.op = "initial_cstate"
    /\ last.anchor_satoshis = AnchorLimit
    /\ cstate = NULL

\* ---- C25: the result of force_fee ----
TotalFunds(cs) == FundsOf(cs, OURS) + FundsOf(cs, THEIRS)

\* C25: force_fee(cstate, fee) returns true exactly when, after the call, the
\* two fee_msat add up to fee * 1000; when the two sides together cannot pay,
\* it returns false and the cstate is altered all the same, every msat of both
\* sides being in fee_msat; when fee exceeds (2^64 - 1) / 1000 it returns false
\* and the cstate is as it was.
C25_ForceFeeResult ==
    last.op = "force_fee" =>
       IF last.arg = HugeFee
       THEN ~last.ok /\ cstate = last.pre
       ELSE /\ last.ok <=> FeeSum(cstate) = last.arg * 1000
            /\ last.arg * 1000 > TotalFunds(last.pre) =>
                  /\ ~last.ok
                  /\ \A s \in Sides : /\ cstate.side[s].pay_msat = 0
                                       /\ cstate.side[s].fee_msat = FundsOf(last.pre, s)

\* a fee the two sides cannot pay: false, and the cstate was altered
C25_Witness ==
    /\ last.op = "force_fee"
    /\ last.arg # HugeFee
    /\ ~last.ok
    /\ cstate # last.pre
    /\ FeeSum(cstate) = TotalFunds(last.pre)

\* a fee that was paid in full
C25_WitnessPaid ==
    /\ last.op = "force_fee"
    /\ last.ok
    /\ FeeSum(cstate) = last.arg * 1000
    /\ cstate # last.pre

\* a fee beyond (2^64 - 1) / 1000
C25_WitnessHuge ==
    /\ last.op = "force_fee"
    /\ last.arg = HugeFee
    /\ ~last.ok

\* ---- a peer taking UPDATE_ADD_HTLC, UPDATE_FULFILL_HTLC, UPDATE_FAIL_HTLC ----
\* What the caller in peer.c does with an accepted packet is not part of the
\* sources at hand; it follows the protocol step of the design: an accepted
\* change is applied to both staging cstates, a fulfilled or failed HTLC of
\* ours moves to RCVD_REMOVE_HTLC, and an ERROR ends the channel.
MaxPackets == 3

\* the preimage of our HTLC id
PreimageOf(id) == <<10 + id>>

OurHtlc(id, msat, state, r) ==
    [peer_new_htlc(id, msat, sha256(PreimageOf(id)), 100, state) EXCEPT !.r = r]

\* The channel when the packets arrive: we funded it; our HTLC 0 was fulfilled
\* and its removal is acknowledged on both sides (they hold its 600000 msat);
\* our HTLC 1 is committed on both sides; our HTLC 2 is somewhere on its way
\* there; their HTLC 1 is committed on both sides.  The preimage of our HTLC 1
\* may be stored already: db_htlc_fulfilled writes it on its own, ahead of the
\* state of the HTLC, and load_peer_htlcs reads both back as they are.
PacketsInit ==
    /\ \E st \in {"SENT_ADD_HTLC", "SENT_ADD_COMMIT", "SENT_ADD_ACK_REVOCATION"},
          r1 \in {NoR, PreimageOf(1)} :
         LET h0 == OurHtlc(0, 600000, "SENT_ADD_ACK_REVOCATION", NoR)
             h1 == OurHtlc(1, 100000, "SENT_ADD_ACK_REVOCATION", r1)
             h2 == OurHtlc(2, 600000, st, NoR)
             c0 == initial_cstate(2 * RestartAnchor, RestartFeeRate, OURS)
             c1 == cstate_fulfill_htlc(cstate_add_htlc(c0, h0).cs, h0)
             t1 == peer_new_htlc(1, 100000, sha256(<<21>>), 100,
                                 "RCVD_ADD_ACK_REVOCATION")
             c2 == cstate_add_htlc(cstate_add_htlc(c1, h1).cs, h2).cs
             c3 == cstate_add_htlc(c2, t1).cs
         IN  live = [htlcs |-> {[h0 EXCEPT !.state = "RCVD_REMOVE_ACK_REVOCATION",
                                           !.r = PreimageOf(0)], h1, h2, t1},
                     local_staging |-> c3, remote_staging |-> c3]
    /\ last = [op |-> "none", pkt |-> NULL, err |-> NoError,
               was_already_fulfilled |-> NotReported, pre |-> live, n |-> 0]
    /\ store = NULL
    /\ loaded = NULL

PktFrame == UNCHANGED <<cstate, present, store, loaded, revVars, dnsVars, dbVars>>

Expiries == {[kind |-> "blocks", value |-> 100],
             [kind |-> "seconds", value |-> 1600000000],
             [kind |-> "unset", value |-> 0]}

AddPackets == [id : {0, 1}, amount_msat : {0, 100000},
               r_hash : {sha256(<<20>>)}, expiry : Expiries]

FulfillPackets == [id : 0 .. 3, r : {PreimageOf(0), PreimageOf(1), PreimageOf(2)}]

FailPackets == [id : 0 .. 3]

\* the channel is open: no ERROR was sent
ChannelOpen == last.err = NoError

Replace(htlcs, old, new) == (htlcs \ {old}) \cup {new}

\* an UPDATE_ADD_HTLC is taken: the acceptor, then both staging cstates
HandleAdd(u) ==
    LET r == accept_pkt_htlc_add(live, u)
        a == cstate_add_htlc(live.local_staging, r.h)
        b == cstate_add_htlc(live.remote_staging, r.h)
        rec(err) == [op |-> "UPDATE_ADD_HTLC", pkt |-> u, err |-> err,
                     was_already_fulfilled |-> NotReported, pre |-> live,
                     n |-> last.n + 1]
    IN  IF r.err # NoError
        THEN live' = live /\ last' = rec(r.err)
        ELSE IF ~(a.ok /\ b.ok)
        THEN live' = live /\ last' = rec("Cannot afford HTLC")
        ELSE /\ live' = [htlcs |-> live.htlcs \cup {r.h},
                         local_staging |-> a.cs, remote_staging |-> b.cs]
             /\ last' = rec(NoError)

RecvAddHtlc ==
    /\ ChannelOpen
    /\ last.n < MaxPackets
    /\ \E u \in AddPackets : HandleAdd(u)
    /\ PktFrame

RecvFulfillHtlc ==
    /\ ChannelOpen
    /\ last.n < MaxPackets
    /\ \E f \in FulfillPackets :
          LET r == accept_pkt_htlc_fulfill(live, f)
              h2 == [r.h EXCEPT !.state = "RCVD_REMOVE_HTLC"]
          IN  /\ last' = [op |-> "UPDATE_FULFILL_HTLC", pkt |-> f, err |-> r.err,
                          was_already_fulfilled |-> r.was_already_fulfilled,
                          pre |-> live, n |-> last.n + 1]
              /\ live' = IF r.err # NoError THEN live
                         ELSE [htlcs |-> Replace(live.htlcs,
                                                 find_commited_htlc(live, f.id).h, h2),
                               local_staging |->
                                   cstate_fulfill_htlc(live.local_staging, r.h),
                               remote_staging |->
                                   cstate_fulfill_htlc(live.remote_staging, r.h)]
    /\ PktFrame

RecvFailHtlc ==
    /\ ChannelOpen
    /\ last.n < MaxPackets
    /\ \E f \in FailPackets :
          LET r  == accept_pkt_htlc_fail(live, f)
              h2 == [r.h EXCEPT !.state = "RCVD_REMOVE_HTLC"]
          IN  /\ last' = [op |-> "UPDATE_FAIL_HTLC", pkt |-> f, err |-> r.err,
                          was_already_fulfilled |-> NotReported,
                          pre |-> live, n |-> last.n + 1]
              /\ live' = IF r.err # NoError THEN live
                         ELSE [htlcs |-> Replace(live.htlcs, r.h, h2),
                               local_staging |->
                                   cstate_fail_htlc(live.local_staging, r.h),
                               remote_staging |->
                                   cstate_fail_htlc(live.remote_staging, r.h)]
    /\ PktFrame

PacketsNext == RecvAddHtlc \/ RecvFulfillHtlc \/ RecvFailHtlc

InitPackets ==
    PacketsInit /\ cstate = NULL /\ present = NULL /\ RevIdle /\ DnsIdle /\ DbIdle

SpecPackets == InitPackets /\ [][PacketsNext]_vars

\* ---- C26: an UPDATE_ADD_HTLC that is refused for its amount or its expiry ----
AddTaken == last.op = "UPDATE_ADD_HTLC"

\* C26: an UPDATE_ADD_HTLC with amount_msat = 0 is answered with the ERROR
\* "Invalid amount_msat", and the HTLCs of the peer and both staging cstates
\* are then as they were before the packet; an UPDATE_ADD_HTLC whose expiry is
\* in seconds is answered with an ERROR and changes nothing either.
C26_RefusedAddChangesNothing ==
    AddTaken =>
       /\ last.pkt.amount_msat = 0 =>
             last.err = "Invalid amount_msat" /\ live = last.pre
       /\ last.pkt.expiry.kind = "seconds" =>
             /\ last.err # NoError
             /\ live = last.pre
             /\ last.pkt.amount_msat # 0 =>
                   last.err = "HTLC expiry in seconds not supported!"

C26_Witness ==
    /\ AddTaken
    /\ last.pkt.amount_msat = 0
    /\ last.pkt.expiry.kind = "blocks"
    /\ last.err = "Invalid amount_msat"
    /\ live = last.pre

C26_WitnessSeconds ==
    /\ AddTaken
    /\ last.pkt.amount_msat # 0
    /\ last.pkt.expiry.kind = "seconds"
    /\ last.err = "HTLC expiry in seconds not supported!"
    /\ live = last.pre

\* ---- C28: the ids of the HTLCs they offered ----
\* C28: an UPDATE_ADD_HTLC whose id is the id of an HTLC of theirs that the
\* peer holds, in whatever state, is answered with an ERROR and creates
\* nothing; no two HTLCs of theirs ever share an id; an accepted
\* UPDATE_ADD_HTLC creates exactly one HTLC, theirs, in state RCVD_ADD_HTLC.
C28_RemoteIdsUnique ==
    /\ \A h1, h2 \in live.htlcs :
          (htlc_owner(h1) = "REMOTE" /\ htlc_owner(h2) = "REMOTE" /\ h1.id = h2.id)
             => h1 = h2
    /\ AddTaken =>
          /\ HtlcsWith(last.pre.htlcs, last.pkt.id, "REMOTE") # {} =>
                last.err # NoError /\ live = last.pre
          /\ last.err = NoError =>
                \E h \in live.htlcs :
                   /\ h \notin last.pre.htlcs
                   /\ live.htlcs = last.pre.htlcs \cup {h}
                   /\ htlc_owner(h) = "REMOTE"
                   /\ h.state = "RCVD_ADD_HTLC"
                   /\ h.id = last.pkt.id
                   /\ h.msatoshis = last.pkt.amount_msat

\* an id they used for an HTLC that is committed by now
C28_Witness ==
    /\ AddTaken
    /\ last.pkt.amount_msat # 0
    /\ last.pkt.expiry.kind = "blocks"
    /\ \E h \in HtlcsWith(last.pre.htlcs, last.pkt.id, "REMOTE") :
          h.state # "RCVD_ADD_HTLC"
    /\ last.err = "HTLC id clashes for you"
    /\ live = last.pre

\* an id that is free for them, though we used it for an HTLC of ours
C28_WitnessAccepted ==
    /\ AddTaken
    /\ last.err = NoError
    /\ HtlcsWith(last.pre.htlcs, last.pkt.id, "LOCAL") # {}
    /\ Cardinality(live.htlcs) = Cardinality(last.pre.htlcs) + 1

\* ---- C29: which UPDATE_FULFILL_HTLC and UPDATE_FAIL_HTLC are taken ----
RemovalTaken == last.op \in {"UPDATE_FULFILL_HTLC", "UPDATE_FAIL_HTLC"}

\* the HTLCs of ours with the id of the packet that were committed on both
\* sides when the packet arrived
NamedCommitted ==
    {h \in HtlcsWith(last.pre.htlcs, last.pkt.id, "LOCAL") :
        h.state = "SENT_ADD_ACK_REVOCATION"}

\* C29: UPDATE_FULFILL_HTLC and UPDATE_FAIL_HTLC are accepted only for an id
\* naming an HTLC of ours in state SENT_ADD_ACK_REVOCATION, UPDATE_FULFILL_HTLC
\* only if SHA256(r) is the rhash of that HTLC as well; every other such
\* packet is answered with an ERROR and leaves the preimage and the state of
\* every HTLC as they were.
C29_RemovalOnlyOfCommitted ==
    RemovalTaken =>
       /\ last.op = "UPDATE_FAIL_HTLC" =>
             (last.err = NoError <=> NamedCommitted # {})
       /\ last.op = "UPDATE_FULFILL_HTLC" =>
             (last.err = NoError <=>
                \E h \in NamedCommitted : sha256(last.pkt.r) = h.rhash)
       /\ last.err # NoError => live = last.pre

\* a preimage that does not solve a committed HTLC
C29_Witness ==
    /\ last.op = "UPDATE_FULFILL_HTLC"
    /\ NamedCommitted # {}
    /\ last.err = "Invalid r"
    /\ live = last.pre

\* an HTLC of ours that is not committed on both sides yet
C29_WitnessState ==
    /\ last.op = "UPDATE_FAIL_HTLC"
    /\ HtlcsWith(last.pre.htlcs, last.pkt.id, "LOCAL") # {}
    /\ NamedCommitted = {}
    /\ last.err = "HTLC state"

C29_WitnessAccepted ==
    /\ last.op = "UPDATE_FULFILL_HTLC"
    /\ last.err = NoError
    /\ \E h \in HtlcsWith(live.htlcs, last.pkt.id, "LOCAL") :
          h.r = last.pkt.r /\ h.state = "RCVD_REMOVE_HTLC"

\* ---- C30: an UPDATE_FULFILL_HTLC for an HTLC whose preimage is stored ----
\* the HTLCs of ours named by the packet whose preimage was stored when the
\* packet arrived and is the one the packet brings again
FulfilledBefore ==
    {h \in HtlcsWith(last.pre.htlcs, last.pkt.id, "LOCAL") :
        h.r # NoR /\ sha256(last.pkt.r) = h.rhash}

DuplicateFulfill == last.op = "UPDATE_FULFILL_HTLC" /\ FulfilledBefore # {}

PreimageKept ==
    \A h \in FulfilledBefore :
       \E g \in HtlcsWith(live.htlcs, last.pkt.id, "LOCAL") : g.r = h.r

\* C30 as stated: a duplicate UPDATE_FULFILL_HTLC is accepted without an
\* ERROR, reports was_already_fulfilled = true, and leaves the stored preimage
\* as it was.
C30_DuplicateFulfillAccepted ==
    DuplicateFulfill =>
       /\ last.err = NoError
       /\ last.was_already_fulfilled = "true"
       /\ PreimageKept

\* C30, amended: a valid UPDATE_FULFILL_HTLC for an HTLC whose preimage is
\* stored is accepted, with was_already_fulfilled = true and the preimage
\* kept, as long as the HTLC is still in SENT_ADD_ACK_REVOCATION; once a fulfil
\* has moved the HTLC on, the packet is answered with an ERROR, nothing is
\* reported, and the peer is as it was.
C30_DuplicateFulfill ==
    DuplicateFulfill =>
       IF NamedCommitted # {}
       THEN /\ last.err = NoError
            /\ last.was_already_fulfilled = "true"
            /\ PreimageKept
       ELSE /\ last.err = "HTLC state"
            /\ last.was_already_fulfilled = NotReported
            /\ live = last.pre

\* the preimage was stored, the removal not begun
C30_Witness ==
    /\ DuplicateFulfill
    /\ NamedCommitted # {}
    /\ last.err = NoError
    /\ last.was_already_fulfilled = "true"

\* the same fulfil twice in a row
C30_WitnessRefused ==
    /\ DuplicateFulfill
    /\ \E h \in FulfilledBefore : h.state = "RCVD_REMOVE_HTLC"
    /\ last.err = "HTLC state"

\* ---- they offer one HTLC after another ----
\* The packets are those of a counterparty filling its side: each
\* UPDATE_ADD_HTLC brings the next unused id and 1000 msat.  We fail their
\* newest HTLC when their side is full, which makes room for one more.  (The
\* commitment rounds between an add and its removal are left out: they change
\* neither the ids held nor the staging cstates.)
MaxAddPackets == 303
MaxRemovals   == 2

LimitInit ==
    /\ live = [htlcs |-> {},
               local_staging  |-> initial_cstate(2 * RestartAnchor, RestartFeeRate, THEIRS),
               remote_staging |-> initial_cstate(2 * RestartAnchor, RestartFeeRate, THEIRS)]
    /\ last = [op |-> "none", pkt |-> NULL, err |-> NoError,
               was_already_fulfilled |-> NotReported, pre |-> live, n |-> 0]
    /\ store = NULL
    /\ loaded = NULL

NextAdd ==
    [id |-> Cardinality(live.htlcs), amount_msat |-> 1000,
     r_hash |-> sha256(<<Cardinality(live.htlcs)>>),
     expiry |-> [kind |-> "blocks", value |-> 100]]

RecvNextAdd ==
    /\ ChannelOpen
    /\ last.n < MaxAddPackets
    /\ HandleAdd(NextAdd)
    /\ PktFrame

\* their HTLCs that are in the staging cstates
TheirsStaged(htlcs) == {h \in htlcs : h.state = "RCVD_ADD_HTLC"}

FailTheirHtlc ==
    /\ ChannelOpen
    /\ live.remote_staging.side[THEIRS].num_htlcs >= MaxHtlcsPerSide
    /\ Cardinality(live.htlcs \ TheirsStaged(live.htlcs)) < MaxRemovals
    /\ LET h == CHOOSE h \in TheirsStaged(live.htlcs) :
                    \A g \in TheirsStaged(live.htlcs) : g.id <= h.id
       IN  /\ live' = [htlcs |-> Replace(live.htlcs, h,
                                         [h EXCEPT !.state = "SENT_REMOVE_HTLC"]),
                       local_staging  |-> cstate_fail_htlc(live.local_staging, h),
                       remote_staging |-> cstate_fail_htlc(live.remote_staging, h)]
           /\ last' = [last EXCEPT !.op = "fail their HTLC", !.pkt = NULL,
                                   !.pre = live]
    /\ PktFrame

LimitNext == RecvNextAdd \/ FailTheirHtlc

InitAddLimit ==
    LimitInit /\ cstate = NULL /\ present = NULL /\ RevIdle /\ DnsIdle /\ DbIdle

SpecAddLimit == InitAddLimit /\ [][LimitNext]_vars

\* ---- C27: no more than 300 HTLCs of theirs ----
TheirCount(l) == l.remote_staging.side[THEIRS].num_htlcs

\* C27: an UPDATE_ADD_HTLC is accepted only when
\* remote.staging_cstate.side[THEIRS].num_htlcs is below 300, so whatever
\* UPDATE_ADD_HTLC packets are accepted and applied and whatever HTLCs are
\* removed, that side never counts more than 300 HTLCs.
C27_AtMost300 ==
    /\ TheirCount(live) <= MaxHtlcsPerSide
    /\ (AddTaken /\ last.err = NoError) =>
          /\ TheirCount(last.pre) < MaxHtlcsPerSide
          /\ TheirCount(live) = TheirCount(last.pre) + 1

\* the 301st HTLC is refused
C27_Witness ==
    /\ AddTaken
    /\ TheirCount(last.pre) = MaxHtlcsPerSide
    /\ last.err = "Too many HTLCs"
    /\ live = last.pre

\* after a removal the side fills up again
C27_WitnessRefilled ==
    /\ AddTaken
    /\ last.err = NoError
    /\ TheirCount(live) = MaxHtlcsPerSide
    /\ Cardinality(live.htlcs) > MaxHtlcsPerSide

\* ---- accept_pkt_open: the OPEN packet ----
\* the configuration of the daemon and the fee rate it sees
OpenConfig == [locktime_max |-> 100, anchor_confirms_max |-> 10,
               commitment_fee_min_percent |-> 50,
               commitment_fee_max_percent |-> 150]

get_feerate == 1001

\* proto_to_rel_locktime: a delay converts when it carries blocks or seconds
proto_to_rel_locktime(l) == l.kind \in {"blocks", "seconds"}

\* proto_to_pubkey: a key decodes or it does not
proto_to_pubkey(k) == k.valid

\* accept_pkt_open without the test of the fee rate against the upper limit
accept_pkt_open_NoUpperFee(pr, o) ==
    LET anchor == IF o.anch = "WILL_CREATE_ANCHOR" THEN "CMD_OPEN_WITH_ANCHOR"
                  ELSE "CMD_OPEN_WITHOUT_ANCHOR"
        p1 == [pr EXCEPT !.remote.offer_anchor = anchor]
        p2 == [p1 EXCEPT !.remote.locktime = o.delay,
                         !.remote.mindepth = o.min_depth,
                         !.remote.commit_fee_rate = o.initial_fee_rate]
        p3 == [p2 EXCEPT !.remote.commitkey = o.commit_key]
        p4 == [p3 EXCEPT !.remote.finalkey = o.final_key]
    IN  IF ~proto_to_rel_locktime(o.delay)
        THEN [err |-> "Invalid delay", peer |-> pr]
        ELSE IF o.delay.kind # "blocks"
        THEN [err |-> "Delay in seconds not accepted", peer |-> pr]
        ELSE IF o.delay.value > OpenConfig.locktime_max
        THEN [err |-> "Delay too great", peer |-> pr]
        ELSE IF o.min_depth > OpenConfig.anchor_confirms_max
        THEN [err |-> "min_depth too great", peer |-> pr]
        ELSE IF o.initial_fee_rate
                  < (get_feerate * OpenConfig.commitment_fee_min_percent) \div 100
        THEN [err |-> "Commitment fee rate too low", peer |-> pr]
        ELSE IF o.anch \notin {"WILL_CREATE_ANCHOR", "WONT_CREATE_ANCHOR"}
        THEN [err |-> "Unknown offer anchor value", peer |-> pr]
        ELSE IF p1.remote.offer_anchor = p1.local.offer_anchor
        THEN [err |-> "Only one side can offer anchor", peer |-> p1]
        ELSE IF ~proto_to_rel_locktime(o.delay)
        THEN [err |-> "Malformed locktime", peer |-> p1]
        ELSE IF ~proto_to_pubkey(o.commit_key)
        THEN [err |-> "Bad commitkey", peer |-> p2]
        ELSE IF ~proto_to_pubkey(o.final_key)
        THEN [err |-> "Bad finalkey", peer |-> p3]
        ELSE [err |-> NoError, peer |-> p4]

\* accept_pkt_open: the peer is returned as the call leaves it
accept_pkt_open(pr, o) ==
    LET anchor == IF o.anch = "WILL_CREATE_ANCHOR" THEN "CMD_OPEN_WITH_ANCHOR"
                  ELSE "CMD_OPEN_WITHOUT_ANCHOR"
        p1 == [pr EXCEPT !.remote.offer_anchor = anchor]
        p2 == [p1 EXCEPT !.remote.locktime = o.delay,
                         !.remote.mindepth = o.min_depth,
                         !.remote.commit_fee_rate = o.initial_fee_rate]
        p3 == [p2 EXCEPT !.remote.commitkey = o.commit_key]
        p4 == [p3 EXCEPT !.remote.finalkey = o.final_key]
    IN  IF ~proto_to_rel_locktime(o.delay)
        THEN [err |-> "Invalid delay", peer |-> pr]
        ELSE IF o.delay.kind # "blocks"
        THEN [err |-> "Delay in seconds not accepted", peer |-> pr]
        ELSE IF o.delay.value > OpenConfig.locktime_max
        THEN [err |-> "Delay too great", peer |-> pr]
        ELSE IF o.min_depth > OpenConfig.anchor_confirms_max
        THEN [err |-> "min_depth too great", peer |-> pr]
        ELSE IF o.initial_fee_rate
                  < (get_feerate * OpenConfig.commitment_fee_min_percent) \div 100
        THEN [err |-> "Commitment fee rate too low", peer |-> pr]
        ELSE IF o.initial_fee_rate
                  > (get_feerate * OpenConfig.commitment_fee_max_percent) \div 100
        THEN [err |-> "Commitment fee rate too low", peer |-> pr]
        ELSE IF o.anch \notin {"WILL_CREATE_ANCHOR", "WONT_CREATE_ANCHOR"}
        THEN [err |-> "Unknown offer anchor value", peer |-> pr]
        ELSE IF p1.remote.offer_anchor = p1.local.offer_anchor
        THEN [err |-> "Only one side can offer anchor", peer |-> p1]
        ELSE IF ~proto_to_rel_locktime(o.delay)
        THEN [err |-> "Malformed locktime", peer |-> p1]
        ELSE IF ~proto_to_pubkey(o.commit_key)
        THEN [err |-> "Bad commitkey", peer |-> p2]
        ELSE IF ~proto_to_pubkey(o.final_key)
        THEN [err |-> "Bad finalkey", peer |-> p3]
        ELSE [err |-> NoError, peer |-> p4]

OpenDelays == {[kind |-> "blocks", value |-> 0], [kind |-> "blocks", value |-> 100],
               [kind |-> "blocks", value |-> 101],
               [kind |-> "seconds", value |-> 60], [kind |-> "unset", value |-> 0]}

OpenKeys == {[valid |-> TRUE, key |-> 7], [valid |-> FALSE, key |-> 8]}

OpenPackets ==
    [delay : OpenDelays, min_depth : {10, 11},
     initial_fee_rate : {499, 500, 1501, 1502},
     anch : {"WILL_CREATE_ANCHOR", "WONT_CREATE_ANCHOR", "unknown"},
     commit_key : OpenKeys, final_key : OpenKeys]

\* the fields of the remote side before any OPEN was taken
NoRemote == [offer_anchor |-> "unset", locktime |-> [kind |-> "unset", value |-> 0],
             mindepth |-> 0, commit_fee_rate |-> 0,
             commitkey |-> [valid |-> FALSE, key |-> 0],
             finalkey |-> [valid |-> FALSE, key |-> 0]]

\* a peer that sent its own OPEN and waits for theirs
OpenInit ==
    /\ \E a \in {"CMD_OPEN_WITH_ANCHOR", "CMD_OPEN_WITHOUT_ANCHOR"} :
          peer = [local |-> [offer_anchor |-> a], remote |-> NoRemote]
    /\ \E o \in OpenPackets :
          last = [op |-> "arguments", pkt |-> o, err |-> NoError, pre |-> peer]
    /\ rev = NULL

RecvOpen ==
    /\ last.op = "arguments"
    /\ LET r == accept_pkt_open(peer, last.pkt)
       IN  /\ peer' = r.peer
           /\ last' = [last EXCEPT !.op = "accept_pkt_open", !.err = r.err]
    /\ UNCHANGED <<cstate, present, rev, dnsVars, dbVars, loadVars>>

InitOpen ==
    OpenInit /\ cstate = NULL /\ present = NULL /\ DnsIdle /\ DbIdle /\ LoadIdle

SpecOpen == InitOpen /\ [][RecvOpen]_vars

\* ---- C31: which OPEN packets are accepted ----
OpenTaken == last.op = "accept_pkt_open"

\* what an acceptable OPEN is
OpenAcceptable(pr, o) ==
    /\ o.delay.kind = "blocks"
    /\ o.delay.value <= OpenConfig.locktime_max
    /\ o.min_depth <= OpenConfig.anchor_confirms_max
    /\ o.initial_fee_rate
          >= (get_feerate * OpenConfig.commitment_fee_min_percent) \div 100
    /\ o.initial_fee_rate
          <= (get_feerate * OpenConfig.commitment_fee_max_percent) \div 100
    /\ \/ o.anch = "WILL_CREATE_ANCHOR" /\ pr.local.offer_anchor # "CMD_OPEN_WITH_ANCHOR"
       \/ o.anch = "WONT_CREATE_ANCHOR"
            /\ pr.local.offer_anchor # "CMD_OPEN_WITHOUT_ANCHOR"
    /\ o.commit_key.valid
    /\ o.final_key.valid

\* C31: accept_pkt_open accepts an OPEN exactly when the delay is in blocks
\* and at most config.locktime_max, min_depth is at most
\* config.anchor_confirms_max, initial_fee_rate lies between feerate * min% / 100
\* and feerate * max% / 100, both included, the anchor offer is a known value
\* other than our own offer, and both keys decode; every other OPEN is
\* answered with an ERROR.
C31_OpenAcceptedIff ==
    OpenTaken => (last.err = NoError <=> OpenAcceptable(last.pre, last.pkt))

\* an OPEN at every limit
C31_Witness ==
    /\ OpenTaken
    /\ last.err = NoError
    /\ last.pkt.delay.value = OpenConfig.locktime_max
    /\ last.pkt.min_depth = OpenConfig.anchor_confirms_max
    /\ last.pkt.initial_fee_rate = 1501

\* an OPEN just above the upper fee limit
C31_WitnessRefused ==
    /\ OpenTaken
    /\ last.err # NoError
    /\ last.pkt.initial_fee_rate = 1502
    /\ last.pkt.delay.kind = "blocks"
    /\ last.pkt.delay.value <= OpenConfig.locktime_max
    /\ last.pkt.min_depth <= OpenConfig.anchor_confirms_max

\* ---- C34: what an OPEN that is refused leaves behind ----
\* C34: when accept_pkt_open returns an ERROR, the fields of the remote side
\* (offer_anchor, locktime, mindepth, commit_fee_rate, commitkey, finalkey)
\* are as they were before the call.
C34_RefusedOpenChangesNothing ==
    (OpenTaken /\ last.err # NoError) => peer.remote = last.pre.remote

\* What the code does: the fields are written as the tests go along, so an
\* OPEN refused by one of the last four tests leaves some of them written.
C34_RefusedOpenWritesFields ==
    (OpenTaken /\ last.err # NoError) =>
       /\ last.err \in {"Only one side can offer anchor", "Malformed locktime",
                        "Bad commitkey", "Bad finalkey"}
            <=> peer.remote # last.pre.remote
       /\ peer.remote.finalkey = last.pre.remote.finalkey

C34_Witness ==
    /\ OpenTaken
    /\ last.err = "Bad finalkey"
    /\ peer.remote.mindepth = last.pkt.min_depth
    /\ peer.remote.commitkey = last.pkt.commit_key
    /\ peer.remote # last.pre.remote

\* ------------------------------------------------------------------------
\* linearize_shachain / delinearize_shachain: the shachain column of the
\* database.  The blob is modelled byte by byte: integers little-endian in
\* their width, a hash as its 32 bytes.
\* ------------------------------------------------------------------------
SHACHAIN_SIZE == 2612

\* push_le64 / push_le32: w bytes of n, least significant first.  The values
\* drawn below are under 2^31, so the bytes from the fifth on are zero.
push_le(n, w) == [i \in 1..w |-> IF i > 4 THEN 0 ELSE (n \div (256 ^ (i - 1))) % 256]

\* pull_le64 / pull_le32: the integer in the w bytes at offset off (0-based);
\* a pull past the end of the data gives 0.
pull_le(data, off, w) ==
    IF off + w > Len(data) THEN 0
    ELSE data[off + 1] + 256 * data[off + 2] + 65536 * data[off + 3]
         + 16777216 * data[off + 4]

pull_hash(data, off) ==
    IF off + 32 > Len(data) THEN [i \in 1..32 |-> 0]
    ELSE [i \in 1..32 |-> data[off + i]]

ZeroSha == [i \in 1..32 |-> 0]

RECURSIVE linearize_slots(_, _)
linearize_slots(s, i) ==
    IF i >= ShachainSlots THEN <<>>
    ELSE (IF i < s.num_valid
          THEN push_le(s.known[i].index, 8) \o s.known[i].hash
          ELSE push_le(0, 8) \o ZeroSha)
         \o linearize_slots(s, i + 1)

\* The linearizer that copies every slot, used or not.
linearize_shachain_AllSlots(s) ==
    LET all == [s EXCEPT !.num_valid = ShachainSlots]
    IN  push_le(s.min_index, 8) \o push_le(s.num_valid, 4) \o linearize_slots(all, 0)

linearize_shachain(s) ==
    push_le(s.min_index, 8) \o push_le(s.num_valid, 4) \o linearize_slots(s, 0)

\* delinearize_shachain: reads min_index, num_valid and all 65 slots, and
\* succeeds when the data was exactly used up.
delinearize_shachain(data) ==
    [ok    |-> Len(data) = 12 + 40 * ShachainSlots,
     chain |-> [min_index |-> pull_le(data, 0, 8),
                num_valid |-> pull_le(data, 8, 4),
                known     |-> [i \in 0..ShachainSlots - 1 |->
                                 [index |-> pull_le(data, 12 + 40 * i, 8),
                                  hash  |-> pull_hash(data, 12 + 40 * i + 8)]]]]

\* Shachain values: num_valid used slots holding an index and a hash, and the
\* slots from num_valid on either zero or holding what an earlier use left.
ShaTags    == {1, 200, 255}
ShaMinima  == {0, 5, 70000}
ShaCounts  == {0, 1, 2, 64, 65}
ShaHash(tag, i) == [j \in 1..32 |-> IF j = 1 THEN tag ELSE IF j = 32 THEN i ELSE 0]
ShaSlot(tag, i) == [index |-> 1000 * tag + i, hash |-> ShaHash(tag, i)]
ZeroSlot        == [index |-> 0, hash |-> ZeroSha]

ShachainValues ==
    { [min_index |-> m, num_valid |-> n,
       known |-> [i \in 0..ShachainSlots - 1 |->
                    IF i < n \/ stale THEN ShaSlot(tag, i) ELSE ZeroSlot]] :
      m \in ShaMinima, n \in ShaCounts, tag \in ShaTags, stale \in BOOLEAN }

ShachainInit ==
    /\ \E s \in ShachainValues :
          last = [op |-> "arguments", chain |-> s, blob |-> <<>>, back |-> NULL]
    /\ cstate = NULL /\ present = NULL

\* db_update_their_secrets .. restore from the database: the chain is written
\* as its blob and read back.
RoundTrip ==
    /\ last.op = "arguments"
    /\ LET blob == linearize_shachain(last.chain)
       IN  last' = [last EXCEPT !.op = "round trip", !.blob = blob,
                                !.back = delinearize_shachain(blob)]
    /\ UNCHANGED <<cstate, present, revVars, dnsVars, dbVars, loadVars>>

InitShachain == ShachainInit /\ RevIdle /\ DnsIdle /\ DbIdle /\ LoadIdle

SpecShachain == InitShachain /\ [][RoundTrip]_vars

ShaTripped == last.op = "round trip"

\* C32 (as the specification states it): for every shachain value with
\* num_valid <= 65 the round trip through linearize_shachain and
\* delinearize_shachain succeeds and gives back the value, equal in
\* min_index, num_valid and all 65 known[] slots, and the blob is exactly
\* 2612 bytes.
C32_RoundTripAllSlots ==
    ShaTripped =>
        /\ Len(last.blob) = SHACHAIN_SIZE
        /\ last.back.ok
        /\ last.back.chain = last.chain

\* C32 (amended): the round trip succeeds with a blob of exactly 2612 bytes
\* and gives back min_index, num_valid and the first num_valid known[] slots;
\* every slot from num_valid on comes back zero, whatever the value held
\* there.
C32_RoundTripUsedSlots ==
    ShaTripped =>
        /\ Len(last.blob) = SHACHAIN_SIZE
        /\ last.back.ok
        /\ last.back.chain.min_index = last.chain.min_index
        /\ last.back.chain.num_valid = last.chain.num_valid
        /\ \A i \in 0..ShachainSlots - 1 :
              last.back.chain.known[i] =
                 IF i < last.chain.num_valid THEN last.chain.known[i] ELSE ZeroSlot

\* A chain with used slots and a non-zero slot past num_valid has made the
\* round trip.
C32_Witness ==
    /\ ShaTripped
    /\ last.chain.num_valid = 2
    /\ last.chain.known[2] # ZeroSlot
    /\ last.back.ok

\* A full chain (num_valid = 65) has made the round trip and came back equal.
C32_WitnessFull ==
    /\ ShaTripped
    /\ last.chain.num_valid = ShachainSlots
    /\ last.back.chain = last.chain

\* ------------------------------------------------------------------------
\* The rows of a peer: db_create_peer, db_set_visible_state, db_forget_peer.
\* db.tables maps each table of the schema that has a peer column to the set
\* of peers with a row in it; every such table has the peer in its primary
\* key.  A statement fails when sqlite refuses it (the outcome drawn for it)
\* or, for an INSERT, when the peer already has a row.
\* ------------------------------------------------------------------------
PeerIds == {1, 2}

\* db_init: the tables with a peer column
SchemaTables ==
    {"anchors", "htlcs", "commit_info", "shachain", "their_visible_state",
     "their_commitments", "peer_secrets", "peer_address", "closing", "peers"}

\* db_forget_peer: tables[]
ForgetTables ==
    <<"anchors", "htlcs", "commit_info", "shachain", "their_visible_state",
      "their_commitments", "peer_secrets", "closing", "peers">>

CreateTables  == <<"peers", "peer_secrets", "peer_address">>
VisibleTables == <<"their_visible_state">>

\* db_exec of the INSERTs of tbls in order, oks[i] being sqlite's verdict on
\* the i-th: stops at the first that fails.
RECURSIVE exec_inserts(_, _, _, _, _)
exec_inserts(tables, tbls, oks, p, i) ==
    IF i > Len(tbls) THEN [tables |-> tables, errmsg |-> FALSE]
    ELSE IF ~oks[i] \/ p \in tables[tbls[i]]
         THEN [tables |-> tables, errmsg |-> TRUE]
         ELSE exec_inserts([tables EXCEPT ![tbls[i]] = @ \cup {p}], tbls, oks, p, i + 1)

\* The body shared by db_create_peer and db_set_visible_state: begin, the
\* INSERTs, commit, and at "out:" db_abort_transaction when errmsg is set.
\* What was written since BEGIN is gone after ROLLBACK, and after the death
\* of the process.
insert_in_transaction(d, tbls, p, o) ==
    LET d1 == db_start_transaction(d, o.begin)
    IN  IF d1.status # "running" \/ ~o.begin THEN [d |-> d1, ret |-> FALSE]
        ELSE LET ins == exec_inserts(d.tables, tbls, o.ins, p, 1)
             IN  IF ins.errmsg
                 THEN [d |-> db_abort_transaction(d1, TRUE), ret |-> FALSE]
                 ELSE LET d2 == db_commit_transaction(d1, o.commit)
                      IN  IF o.commit
                          THEN [d |-> [d2 EXCEPT !.tables = ins.tables], ret |-> TRUE]
                          ELSE [d |-> db_abort_transaction(d2, TRUE), ret |-> FALSE]

db_create_peer(d, p, o) == insert_in_transaction(d, CreateTables, p, o)

db_set_visible_state(d, p, o) == insert_in_transaction(d, VisibleTables, p, o)

fatal(d) == [d EXCEPT !.status = "exited"]

\* db_forget_peer: o.del is the number of DELETEs that succeed
db_forget_peer(d, p, state, o) ==
    LET d0 == assert(d, state = "STATE_CLOSED")
        d1 == db_start_transaction(d0, o.begin)
    IN  IF d0.status # "running" THEN d0
        ELSE IF d1.status # "running" THEN d1
        ELSE IF ~o.begin THEN fatal(d1)
        ELSE IF o.del < Len(ForgetTables) THEN fatal(d1)
        ELSE LET d2 == db_commit_transaction(d1, o.commit)
             IN  IF ~o.commit THEN fatal(d2)
                 ELSE [d2 EXCEPT !.tables =
                          [t \in SchemaTables |->
                             IF \E i \in 1..Len(ForgetTables) : ForgetTables[i] = t
                             THEN @[t] \ {p} ELSE @[t]]]

\* What the database holds for a peer: nothing, what db_create_peer wrote,
\* that and the visible state, or a row in every table.
RowLevels == {"none", "created", "visible", "all"}

TablesAt(level) ==
    [t \in SchemaTables |->
        { p \in PeerIds :
            \/ level[p] = "all"
            \/ level[p] = "visible" /\ t \in {"peers", "peer_secrets", "peer_address",
                                              "their_visible_state"}
            \/ level[p] = "created" /\ t \in {"peers", "peer_secrets", "peer_address"} }]

InsertOutcomes(n) == [begin : BOOLEAN, ins : [1..n -> BOOLEAN], commit : BOOLEAN]
ForgetOutcomes    == [begin : BOOLEAN, del : {0, 8, 9}, commit : BOOLEAN]

PeerRowsInit ==
    /\ \E level \in [PeerIds -> RowLevels] :
          db = [in_transaction |-> FALSE, status |-> "running",
                tables |-> TablesAt(level), n |-> 0]
    /\ dblog = [op |-> "db_init", peer |-> 0, o |-> NULL, ret |-> TRUE, pre |-> NULL]

RowCall(op, p, o, r) ==
    /\ db' = [r.d EXCEPT !.n = @ + 1]
    /\ dblog' = [op |-> op, peer |-> p, o |-> o, ret |-> r.ret, pre |-> db.tables]
    /\ DbFrame

DbCreatePeer ==
    /\ CanCall
    /\ \E p \in PeerIds, o \in InsertOutcomes(3) :
          RowCall("db_create_peer", p, o, db_create_peer(db, p, o))

DbSetVisibleState ==
    /\ CanCall
    /\ \E p \in PeerIds, o \in InsertOutcomes(1) :
          RowCall("db_set_visible_state", p, o, db_set_visible_state(db, p, o))

DbForgetPeer ==
    /\ CanCall
    /\ \E p \in PeerIds, state \in {"STATE_NORMAL", "STATE_CLOSED"}, o \in ForgetOutcomes :
          LET d1 == db_forget_peer(db, p, state, o)
          IN  RowCall("db_forget_peer", p, [o EXCEPT !.del = <<@, state>>],
                      [d |-> d1, ret |-> d1.status = "running"])

PeerRowsNext == DbCreatePeer \/ DbSetVisibleState \/ DbForgetPeer

InitPeerRows == PeerRowsInit /\ ChannelIdle /\ RevIdle /\ DnsIdle /\ LoadIdle

SpecPeerRows == InitPeerRows /\ [][PeerRowsNext]_vars

InsertCall == dblog.op \in {"db_create_peer", "db_set_visible_state"}

InsertedTables == IF dblog.op = "db_create_peer" THEN CreateTables ELSE VisibleTables

\* every step of the last call succeeded: BEGIN, each INSERT, COMMIT
EveryStepSucceeded ==
    /\ dblog.o.begin
    /\ dblog.o.commit
    /\ \A i \in 1..Len(InsertedTables) :
          dblog.o.ins[i] /\ dblog.peer \notin dblog.pre[InsertedTables[i]]

\* C33: whatever BEGIN, each INSERT and COMMIT do, db_create_peer and
\* db_set_visible_state return true exactly when every step succeeded, leave
\* the tables as they were on any failure, never trip an in_transaction
\* assertion, and return with in_transaction false.
C33_InsertsAllOrNothing ==
    InsertCall =>
        /\ db.status = "running"
        /\ ~db.in_transaction
        /\ dblog.ret <=> EveryStepSucceeded
        /\ ~dblog.ret => db.tables = dblog.pre
        /\ dblog.ret => \A i \in 1..Len(InsertedTables) :
                           dblog.peer \in db.tables[InsertedTables[i]]

\* BEGIN and every INSERT succeeded and COMMIT failed
CommitFailed ==
    /\ dblog.o.begin
    /\ ~dblog.o.commit
    /\ \A i \in 1..Len(InsertedTables) :
          dblog.o.ins[i] /\ dblog.peer \notin dblog.pre[InsertedTables[i]]

\* What the two functions do: all of C33 except when COMMIT fails, where the
\* assertion of db_abort_transaction stops the process.
C33_FailedCommitAsserts ==
    InsertCall =>
        /\ ~db.in_transaction
        /\ (db.status = "aborted") <=> CommitFailed
        /\ dblog.ret <=> EveryStepSucceeded
        /\ ~dblog.ret => db.tables = dblog.pre

\* db_create_peer met a failing COMMIT
C33_Witness ==
    /\ dblog.op = "db_create_peer"
    /\ CommitFailed
    /\ db.status = "aborted"

\* db_set_visible_state rolled back after its INSERT failed
C33_WitnessRollback ==
    /\ dblog.op = "db_set_visible_state"
    /\ dblog.o.begin /\ ~dblog.o.ins[1]
    /\ db.status = "running"
    /\ ~dblog.ret

ForgetDone == dblog.op = "db_forget_peer" /\ dblog.ret

\* C35: db_forget_peer runs only for a peer in state CLOSED and removes the
\* peer's rows from every table of the schema: afterwards no table holds a
\* row for the peer.
C35_ForgetRemovesEveryRow ==
    ForgetDone =>
        /\ dblog.o.del[2] = "STATE_CLOSED"
        /\ \A t \in SchemaTables : dblog.peer \notin db.tables[t]

\* What db_forget_peer does: it runs only for a CLOSED peer and leaves the
\* peer a row in peer_address, if it had one, and in no other table.
C35_ForgetKeepsAddress ==
    ForgetDone =>
        /\ dblog.o.del[2] = "STATE_CLOSED"
        /\ \A t \in SchemaTables :
              dblog.peer \in db.tables[t] <=>
                 (t = "peer_address" /\ dblog.peer \in dblog.pre[t])

\* a peer created and then forgotten still has its address row
C35_Witness ==
    /\ ForgetDone
    /\ dblog.peer \in dblog.pre["peers"]
    /\ dblog.peer \in db.tables["peer_address"]

CreateAfterForget ==
    /\ dblog.op = "db_create_peer"
    /\ dblog.o.begin /\ dblog.o.commit
    /\ \A i \in 1..3 : dblog.o.ins[i]
    /\ \A t \in SchemaTables \ {"peer_address"} : dblog.peer \notin dblog.pre[t]

\* C35, second half: a db_create_peer for an id that has no row in any table
\* db_forget_peer clears succeeds when sqlite refuses nothing.
C35_CreateAfterForgetSucceeds == CreateAfterForget => dblog.ret

\* db_create_peer for a forgotten peer was refused
C35_WitnessCreate ==
    /\ CreateAfterForget
    /\ dblog.peer \in dblog.pre["peer_address"]
    /\ ~dblog.ret

\* ------------------------------------------------------------------------
\* The assertion at the end of change_funding.
\* ------------------------------------------------------------------------
\* htlcs_total as change_funding computes it on entry
htlcs_total(cs) == cs.anchor * 1000 - Balances(cs)

\* The last call went through change_funding to its end; Moved is the
\* htlc_msat it was given.
FundingChanged ==
    /\ last.op \in {"cstate_add_htlc", "cstate_fulfill_htlc", "cstate_fail_htlc"}
    /\ last.ok

Moved == IF last.op = "cstate_add_htlc" THEN last.htlc.msatoshis
         ELSE 0 - last.htlc.msatoshis

\* C36: in every ChannelState reached from initial_cstate by add, fulfil,
\* fail, adjust_fee and force_fee, the four balances and the msatoshis of
\* the outstanding HTLCs sum to anchor * 1000, and the assertion at the end
\* of change_funding (htlcs_total + htlc_msat equals what the balances leave
\* of the anchor) holds in every call.
C36_BalancesAndAssertion ==
    /\ Balances(cstate) + Outstanding = cstate.anchor * 1000
    /\ htlcs_total(cstate) >= 0
    /\ FundingChanged =>
          htlcs_total(last.pre) + Moved = htlcs_total(cstate)

\* an HTLC was fulfilled while another stays outstanding, after a fee change
C36_Witness ==
    /\ last.op = "cstate_fulfill_htlc"
    /\ Outstanding > 0
    /\ last.pre.side[OURS].fee_msat + last.pre.side[THEIRS].fee_msat
         # calculate_fee_msat(last.pre.num_nondust, last.pre.fee_rate)

\* ------------------------------------------------------------------------
\* Orderings of adds, fulfils and fails: the calls the staging and the
\* replay of HTLCs make, in any order, from one initial cstate.  last keeps
\* how many calls of each kind were made, the call before the last one and
\* the cstate that call found.
\* ------------------------------------------------------------------------
NoCalls == [k \in HtlcKinds |-> 0]

OrderInit ==
    /\ \E a \in Anchors, r \in FeeRates, f \in Sides :
          /\ initial_cstate(a, r, f) # NULL
          /\ cstate = initial_cstate(a, r, f)
    /\ present = [k \in HtlcKinds |-> 0]
    /\ last = [op |-> "initial_cstate", htlc |-> NoHtlc, ok |-> TRUE, failed |-> FALSE,
               init |-> cstate, pre |-> cstate,
               adds |-> NoCalls, fulfils |-> NoCalls, fails |-> NoCalls, n |-> 0,
               prev |-> [op |-> "none", htlc |-> NoHtlc, ok |-> TRUE, pre |-> cstate]]

Called(op, htlc, ok) ==
    [last EXCEPT !.op = op, !.htlc = htlc, !.ok = ok, !.pre = cstate, !.n = @ + 1,
                 !.failed = @ \/ ~ok,
                 !.prev = [op |-> last.op, htlc |-> last.htlc, ok |-> last.ok,
                           pre |-> last.pre]]

OrdAdd ==
    /\ last.n < MaxCalls
    /\ NumPresent < MaxHtlcs
    /\ \E htlc \in HtlcKinds :
          LET r == cstate_add_htlc(cstate, htlc)
          IN  /\ cstate' = r.cs
              /\ present' = IF r.ok THEN [present EXCEPT ![htlc] = @ + 1] ELSE present
              /\ last' = [Called("cstate_add_htlc", htlc, r.ok) EXCEPT
                             !.adds[htlc] = IF r.ok THEN @ + 1 ELSE @]
    /\ ChanFrame

OrdFulfill ==
    /\ last.n < MaxCalls
    /\ \E htlc \in HtlcKinds :
          /\ present[htlc] > 0
          /\ cstate' = cstate_fulfill_htlc(cstate, htlc)
          /\ present' = [present EXCEPT ![htlc] = @ - 1]
          /\ last' = [Called("cstate_fulfill_htlc", htlc, TRUE) EXCEPT
                         !.fulfils[htlc] = @ + 1]
    /\ ChanFrame

OrdFail ==
    /\ last.n < MaxCalls
    /\ \E htlc \in HtlcKinds :
          /\ present[htlc] > 0
          /\ cstate' = cstate_fail_htlc(cstate, htlc)
          /\ present' = [present EXCEPT ![htlc] = @ - 1]
          /\ last' = [Called("cstate_fail_htlc", htlc, TRUE) EXCEPT
                         !.fails[htlc] = @ + 1]
    /\ ChanFrame

OrderNext == OrdAdd \/ OrdFulfill \/ OrdFail

InitOrder == OrderInit /\ RevIdle /\ DnsIdle /\ DbIdle /\ LoadIdle

SpecOrder == InitOrder /\ [][OrderNext]_vars

\* the sum of f[k] * w[k] over the HTLC kinds in S
RECURSIVE Weighted(_, _, _)
Weighted(S, f, w) ==
    IF S = {} THEN 0
    ELSE LET k == CHOOSE x \in S : TRUE
         IN  f[k] * w[k] + Weighted(S \ {k}, f, w)

Msat    == [k \in HtlcKinds |-> k.msatoshis]
One     == [k \in HtlcKinds |-> 1]
KindsOf(s) == {k \in HtlcKinds : k.side = s}
NonDust == {k \in HtlcKinds : ~is_dust(k.msatoshis \div 1000)}

\* The cstate that the calls counted in last give whatever their order: each
\* side holds its initial funds less what it offered, plus what failed back
\* to it and what it was paid by fulfils; the fee for the non-dust HTLCs
\* still there is split afresh.
OrderFree ==
    LET still == [k \in HtlcKinds |-> last.adds[k] - last.fulfils[k] - last.fails[k]]
        funds(s) == FundsOf(last.init, s)
                    - Weighted(KindsOf(s), last.adds, Msat)
                    + Weighted(KindsOf(s), last.fails, Msat)
                    + Weighted(KindsOf(Other(s)), last.fulfils, Msat)
        side(s)  == [pay_msat |-> funds(s), fee_msat |-> 0,
                     num_htlcs |-> Weighted(KindsOf(s), still, One)]
        nondust  == Weighted(NonDust, still, One)
        r == recalculate_fees(side(OURS), side(THEIRS),
                              calculate_fee_msat(nondust, last.init.fee_rate))
    IN  [anchor |-> last.init.anchor, fee_rate |-> last.init.fee_rate,
         num_nondust |-> nondust,
         side |-> [s \in Sides |-> IF s = OURS THEN r.a ELSE r.b]]

\* C37: from a fixed initial cstate, any two orderings of the same adds,
\* fulfils and fails in which every cstate_add_htlc succeeds end in the same
\* ChannelState: the cstate after any such ordering is the one determined by
\* the initial cstate and the numbers of calls of each kind alone.
C37_OrderIndependent == ~last.failed => cstate = OrderFree

\* two HTLCs were added and one fulfilled, the other still there
C37_Witness ==
    /\ ~last.failed
    /\ last.n >= 3
    /\ \E k \in HtlcKinds : last.fulfils[k] > 0
    /\ NumPresent = 1
    /\ cstate.side[OURS].pay_msat > 0 /\ cstate.side[THEIRS].pay_msat > 0

AddThenFail ==
    /\ last.op = "cstate_fail_htlc"
    /\ last.prev.op = "cstate_add_htlc"
    /\ last.prev.ok
    /\ last.prev.htlc = last.htlc
    /\ ~last.failed

\* C38: in a cstate reached from initial_cstate by successful adds, fulfils
\* and fails only, a successful cstate_add_htlc of h followed at once by
\* cstate_fail_htlc of h gives back the cstate exactly: pay_msat, fee_msat,
\* num_htlcs and num_nondust.
C38_AddThenFailRestores == AddThenFail => cstate = last.prev.pre

\* an add that changed the fee split was undone by the fail, after a fulfil
C38_Witness ==
    /\ AddThenFail
    /\ last.n >= 4
    /\ \E k \in HtlcKinds : last.fulfils[k] > 0
    /\ last.pre.num_nondust > last.prev.pre.num_nondust
    /\ last.pre.side # last.prev.pre.side

\* ------------------------------------------------------------------------
\* The rows of the htlcs table by owner: db_new_htlc for our HTLCs and for
\* theirs, and what load_peer_htlcs brings back.  live.attempted holds the
\* (owner, id) pairs db_new_htlc was called for, live.call the last call.
\* ------------------------------------------------------------------------
HtlcOwners == {"LOCAL", "REMOTE"}

HtlcRowsInit ==
    /\ \E funder \in Sides :
         LET params == [anchor |-> RestartAnchor, funder |-> funder,
                        local_fee_rate |-> RestartFeeRate,
                        remote_fee_rate |-> RestartFeeRate]
             orders == [s \in Sides |-> [xmit_order |-> NoOrder]]
         IN  store = [peers |-> (ThisPeer :> params),
                      htlcs |-> {},
                      commit_info |-> [k \in {ThisPeer} |-> orders],
                      closing |-> [k \in {ThisPeer} |-> {}]]
    /\ live = [attempted |-> {}, call |-> [op |-> "none"]]
    /\ loaded = NotLoaded

\* db_new_htlc for a new HTLC of this peer.  Our ids come from
\* htlc_id_counter, theirs from their packets, unique among theirs.
DbNewHtlcRow ==
    /\ Running
    /\ \E owner \in HtlcOwners, id \in 0 .. MaxHtlcId, m \in HtlcAmounts :
          /\ <<owner, id>> \notin live.attempted
          /\ owner = "LOCAL" =>
                id = Cardinality({a \in live.attempted : a[1] = "LOCAL"})
          /\ LET h == [id |-> id, state |-> StateAt(owner, 1), msatoshis |-> m,
                       r |-> FALSE, src |-> NoSrc,
                       side |-> IF owner = "LOCAL" THEN OURS ELSE THEIRS]
                 w == db_new_htlc_exec(store.htlcs, ThisPeer, h)
             IN  /\ store' = [store EXCEPT !.htlcs = w.tbl]
                 /\ live' = [attempted |-> live.attempted \cup {<<owner, id>>},
                             call |-> [op |-> "db_new_htlc", owner |-> owner,
                                       id |-> id, returned |-> w.ok]]
    /\ UNCHANGED loaded
    /\ LoadFrame

\* the daemon stops and starts again: db_load_peers
RestartRows ==
    /\ Running
    /\ live.attempted # {}
    /\ loaded' = db_load_peers(store)
    /\ UNCHANGED <<live, store>>
    /\ LoadFrame

HtlcRowsNext == DbNewHtlcRow \/ RestartRows

InitHtlcRows == HtlcRowsInit /\ ChannelIdle /\ RevIdle /\ DnsIdle /\ DbIdle

SpecHtlcRows == InitHtlcRows /\ [][HtlcRowsNext]_vars

RowOf(owner, id) ==
    {x \in store.htlcs : x.peer = ThisPeer /\ x.id = id
                         /\ htlc_state_owner(x.state) = owner}

BothAttempted(id) ==
    <<"LOCAL", id>> \in live.attempted /\ <<"REMOTE", id>> \in live.attempted

\* C39: an HTLC of ours and one of theirs, of the same peer and with the same
\* id, are both stored by db_new_htlc, and both are in the registry after a
\* restart, as two entries.
C39_SameIdBothStored ==
    \A id \in 0 .. MaxHtlcId :
       BothAttempted(id) =>
          /\ RowOf("LOCAL", id) # {} /\ RowOf("REMOTE", id) # {}
          /\ loaded # NotLoaded =>
                /\ HtlcsWith(loaded.peer.htlcs, id, "LOCAL") # {}
                /\ HtlcsWith(loaded.peer.htlcs, id, "REMOTE") # {}

\* What the table does: it holds one row for an id of a peer, the one stored
\* first, and db_new_htlc returns false for the other owner's HTLC.
C39_OneRowPerId ==
    /\ \A id \in 0 .. MaxHtlcId :
          Cardinality(RowOf("LOCAL", id) \cup RowOf("REMOTE", id)) <= 1
    /\ live.call.op = "db_new_htlc" =>
          (live.call.returned <=>
             <<IF live.call.owner = "LOCAL" THEN "REMOTE" ELSE "LOCAL", live.call.id>>
                \notin live.attempted)
    /\ loaded # NotLoaded =>
          \A id \in 0 .. MaxHtlcId :
             Cardinality({h \in loaded.peer.htlcs : h.id = id}) <= 1

\* both HTLCs with id 0 were handed to db_new_htlc, and after the restart
\* the registry has theirs and not ours
C39_Witness ==
    /\ BothAttempted(0)
    /\ loaded # NotLoaded
    /\ HtlcsWith(loaded.peer.htlcs, 0, "REMOTE") # {}
    /\ HtlcsWith(loaded.peer.htlcs, 0, "LOCAL") = {}

\* ------------------------------------------------------------------------
\* permute_tx.c: the canonical order of the inputs and outputs of a
\* transaction.  An array is a sequence (element k of the code is element
\* k + 1 here); a script or txid is the sequence of its bytes, 0 .. 255.
\* ------------------------------------------------------------------------
MaxItems == 3

\* memcmp(a, b, n): the sign of the first difference in the first n bytes
RECURSIVE memcmp_from(_, _, _, _)
memcmp_from(a, b, n, k) ==
    IF k > n THEN 0
    ELSE IF a[k] # b[k] THEN (IF a[k] < b[k] THEN -1 ELSE 1)
    ELSE memcmp_from(a, b, n, k + 1)

memcmp(a, b, n) == memcmp_from(a, b, n, 1)

script_length(x) == Len(x.script)

input_better(a, b) ==
    LET cmp == memcmp(a.txid, b.txid, Len(a.txid))
    IN  IF cmp # 0 THEN cmp < 0
        ELSE IF a.index # b.index THEN a.index < b.index
        ELSE IF script_length(a) # script_length(b)
        THEN script_length(a) < script_length(b)
        ELSE LET cmp2 == memcmp(a.script, b.script, script_length(a))
             IN  IF cmp2 # 0 THEN cmp2 < 0
                 ELSE a.sequence_number < b.sequence_number

\* output_better that does not look at the lengths after the common prefix
output_better_NoPrefix(a, b) ==
    IF a.amount # b.amount THEN a.amount < b.amount
    ELSE LET len == IF script_length(a) < script_length(b)
                    THEN script_length(a) ELSE script_length(b)
             ret == memcmp(a.script, b.script, len)
         IN  ret < 0

output_better(a, b) ==
    IF a.amount # b.amount THEN a.amount < b.amount
    ELSE LET len == IF script_length(a) < script_length(b)
                    THEN script_length(a) ELSE script_length(b)
             ret == memcmp(a.script, b.script, len)
         IN  IF ret # 0 THEN ret < 0
             ELSE script_length(a) < script_length(b)

\* find_best_in / find_best_out: the loop from i with the best so far
RECURSIVE best_in(_, _, _, _)
best_in(inputs, num, i, best) ==
    IF i >= num THEN best
    ELSE best_in(inputs, num, i + 1,
                 IF input_better(inputs[i + 1], inputs[best + 1]) THEN i ELSE best)

find_best_in(inputs, num) == best_in(inputs, num, 1, 0)

RECURSIVE best_out(_, _, _, _)
best_out(outputs, num, i, best) ==
    IF i >= num THEN best
    ELSE best_out(outputs, num, i + 1,
                  IF output_better(outputs[i + 1], outputs[best + 1]) THEN i ELSE best)

find_best_out(outputs, num) == best_out(outputs, num, 1, 0)

\* swap_inputs / swap_outputs
swap(arr, i1, i2) == [arr EXCEPT ![i1 + 1] = arr[i2 + 1], ![i2 + 1] = arr[i1 + 1]]

\* arr + i: the array from element i on
From(arr, i) == SubSeq(arr, i + 1, Len(arr))

\* the body of the loop of permute_inputs / permute_outputs, for one i
permute_inputs_step(inputs, i) ==
    swap(inputs, i, i + find_best_in(From(inputs, i), Len(inputs) - i))

permute_outputs_step(outputs, i) ==
    swap(outputs, i, i + find_best_out(From(outputs, i), Len(outputs) - i))

RECURSIVE permute_inputs_from(_, _)
permute_inputs_from(inputs, i) ==
    IF i >= Len(inputs) THEN inputs
    ELSE permute_inputs_from(permute_inputs_step(inputs, i), i + 1)

permute_inputs(inputs) == permute_inputs_from(inputs, 0)

RECURSIVE permute_outputs_from(_, _)
permute_outputs_from(outputs, i) ==
    IF i >= Len(outputs) THEN outputs
    ELSE permute_outputs_from(permute_outputs_step(outputs, i), i + 1)

permute_outputs(outputs) == permute_outputs_from(outputs, 0)

\* The outputs and inputs arrays are made of: amounts and scripts with a
\* common prefix, and inputs that differ in one field at a time.
TxOutputs ==
    {[amount |-> 1000, script |-> <<>>],
     [amount |-> 1000, script |-> <<1>>],
     [amount |-> 1000, script |-> <<1, 2>>],
     [amount |-> 1000, script |-> <<1, 200>>],
     [amount |-> 1000, script |-> <<2>>],
     [amount |-> 546,  script |-> <<2>>]}

TxInputs ==
    {[txid |-> <<1, 0>>,   index |-> 0, script |-> <<>>,     sequence_number |-> 0],
     [txid |-> <<0, 255>>, index |-> 1, script |-> <<>>,     sequence_number |-> 0],
     [txid |-> <<1, 0>>,   index |-> 1, script |-> <<>>,     sequence_number |-> 0],
     [txid |-> <<1, 0>>,   index |-> 1, script |-> <<5>>,    sequence_number |-> 0],
     [txid |-> <<1, 0>>,   index |-> 1, script |-> <<5>>,    sequence_number |-> 7],
     [txid |-> <<1, 0>>,   index |-> 1, script |-> <<3>>,    sequence_number |-> 9],
     [txid |-> <<1, 0>>,   index |-> 1, script |-> <<4, 9>>, sequence_number |-> 0]}

ArraysOf(S) == UNION {[1..n -> S] : n \in 0 .. MaxItems}

PermuteInit ==
    /\ \E kind \in {"inputs", "outputs"} :
       \E arr \in ArraysOf(IF kind = "inputs" THEN TxInputs ELSE TxOutputs) :
          last = [op |-> "permute", kind |-> kind, orig |-> arr, arr |-> arr, i |-> 0]
    /\ cstate = NULL /\ present = NULL

\* one turn of the loop of permute_inputs
PermuteInputsStep ==
    /\ last.op = "permute" /\ last.kind = "inputs"
    /\ last.i < Len(last.arr)
    /\ last' = [last EXCEPT !.arr = permute_inputs_step(last.arr, last.i),
                            !.i = @ + 1]
    /\ UNCHANGED <<cstate, present, revVars, dnsVars, dbVars, loadVars>>

\* one turn of the loop of permute_outputs
PermuteOutputsStep ==
    /\ last.op = "permute" /\ last.kind = "outputs"
    /\ last.i < Len(last.arr)
    /\ last' = [last EXCEPT !.arr = permute_outputs_step(last.arr, last.i),
                            !.i = @ + 1]
    /\ UNCHANGED <<cstate, present, revVars, dnsVars, dbVars, loadVars>>

PermuteNext == PermuteInputsStep \/ PermuteOutputsStep

InitPermute == PermuteInit /\ RevIdle /\ DnsIdle /\ DbIdle /\ LoadIdle

\* The loop goes on until it is through: the function is not suspended.
SpecPermute == InitPermute /\ [][PermuteNext]_vars /\ WF_vars(PermuteNext)

PermuteDone == last.i = Len(last.arr)

\* s before t in the lexicographic order of bytes, a proper prefix first
LexBefore(s, t) ==
    \E k \in 1 .. Len(t) :
       /\ \A j \in 1 .. k - 1 : j <= Len(s) /\ s[j] = t[j]
       /\ k > Len(s) \/ (k <= Len(s) /\ s[k] < t[k])

\* a at or before b in the order of outputs: amount, then script
OutputOrder(a, b) ==
    \/ a.amount < b.amount
    \/ a.amount = b.amount /\ (a.script = b.script \/ LexBefore(a.script, b.script))

\* a at or before b in the order of inputs: txid, index, script length,
\* script, sequence number
InputOrder(a, b) ==
    \/ LexBefore(a.txid, b.txid)
    \/ /\ a.txid = b.txid
       /\ \/ a.index < b.index
          \/ /\ a.index = b.index
             /\ \/ Len(a.script) < Len(b.script)
                \/ /\ Len(a.script) = Len(b.script)
                   /\ \/ LexBefore(a.script, b.script)
                      \/ /\ a.script = b.script
                         /\ a.sequence_number <= b.sequence_number

SortedBy(arr, Order(_, _)) ==
    \A k \in 1 .. Len(arr) - 1 : Order(arr[k], arr[k + 1])

Count(arr, x) == Cardinality({k \in 1 .. Len(arr) : arr[k] = x})

IsPermutation(a, b) ==
    /\ Len(a) = Len(b)
    /\ \A k \in 1 .. Len(a) : Count(a, a[k]) = Count(b, a[k])

\* the orderings of the elements of arr
Orderings(arr) ==
    {[k \in 1 .. Len(arr) |-> arr[p[k]]] :
        p \in {q \in [1 .. Len(arr) -> 1 .. Len(arr)] :
                  \A x, y \in 1 .. Len(arr) : x # y => q[x] # q[y]}}

PermuteResult ==
    /\ IsPermutation(last.arr, last.orig)
    /\ last.kind = "outputs" =>
          /\ SortedBy(last.arr, OutputOrder)
          /\ \A o \in Orderings(last.orig) : permute_outputs(o) = last.arr
    /\ last.kind = "inputs" =>
          /\ SortedBy(last.arr, InputOrder)
          /\ \A o \in Orderings(last.orig) : permute_inputs(o) = last.arr

\* C40: permute_outputs terminates for every array and leaves it a
\* permutation of what it was given, sorted ascending by amount and then by
\* script in lexicographic order with a proper prefix first, the same for
\* every initial ordering; permute_inputs likewise in the order txid, index,
\* script length, script, sequence number.
C40_PermuteSortsAndTerminates ==
    /\ [](PermuteDone => PermuteResult)
    /\ <>PermuteDone

\* three outputs of one amount, given with the longer script before its
\* prefix, have been sorted
C40_Witness ==
    /\ PermuteDone
    /\ last.kind = "outputs"
    /\ last.orig = <<[amount |-> 1000, script |-> <<1, 2>>],
                     [amount |-> 1000, script |-> <<2>>],
                     [amount |-> 1000, script |-> <<1>>]>>
    /\ last.arr # last.orig

\* three inputs that differ in script length, script and sequence number only
\* have been sorted
C40_WitnessInputs ==
    /\ PermuteDone
    /\ last.kind = "inputs"
    /\ Len(last.arr) = 3
    /\ \A k \in 1 .. 3 : last.orig[k].txid = <<1, 0>> /\ last.orig[k].index = 1
    /\ last.orig[1].script = <<5>> /\ last.orig[1].sequence_number = 7
    /\ last.arr # last.orig

=========================================================================
